---------------------------- MODULE Spec2Model ----------------------------
(***************************************************************************)
(* A model of BalancerTracker: the JSON pool store (src/data_store.py)     *)
(* and the reward decomposition / price cache (src/balancer_tracker.py).   *)
(*                                                                         *)
(* Conventions.                                                            *)
(*  - A string the code takes apart (a pool name, a chain) is a sequence   *)
(*    of one-character strings.                                            *)
(*  - A float is a fixed-point integer.  In the store, money is counted   *)
(*    in units of 0.001 USD and a percentage in units of 0.00001 percent,  *)
(*    so that round(x, 2) and round(x, 4) both round to a multiple of 10.  *)
(*    In the tracker, money is in whole USD and a percentage in units of   *)
(*    0.01 percent, which keeps the APR arithmetic within 32 bits.         *)
(*  - None is the empty sequence <<>>; an optional value x is <<x>>.       *)
(*  - A JSON object is a record; dict.get(k, d) is Get(obj, k, d).         *)
(***************************************************************************)
EXTENDS Integers, Sequences, FiniteSets, TLC

VARIABLES
    \* ---- _generate_pool_key applied to one record --------------------
    kChain,         \* pool.chain of the record
    kName,          \* pool.name of the record
    kKey,           \* the key returned
    kDone,          \* TRUE once _generate_pool_key has run
    \* ---- the store's clock ------------------------------------------
    now,            \* datetime.utcnow(), in whole time units
    \* ---- PoolDataStore: the snapshot file ----------------------------
    latestFile,     \* content of balancer_pools_latest.json
    snapOp,         \* the last snapshot operation: "none", "save", "load"
    snapRet,        \* what that operation returned, or that it raised
    lastSaved,      \* pool_data_list of the last non-empty save (<<>>: none)
    overwrote,      \* the last non-empty save replaced another saved list
    \* ---- PoolDataStore: the history file -----------------------------
    historyFile,    \* content of balancer_pools_history.json
    histOp,         \* the last history operation: "none", "append"
    histArg,        \* pool_data_list of the last append_history
    histMax,        \* max_snapshots of the last append_history
    histRet,        \* what that call returned, or that it raised
    hLog,           \* per key, every entry appended so far, in call order
    hEarlierLimit,  \* a call before the last one passed max_snapshots
    \* ---- AuraFinanceAPI: the price cache ----------------------------
    pricesFetched,  \* self._prices_fetched
    priceCache,     \* self._price_cache: symbol -> price
    oracle,         \* the responses the price oracle gives, request by request
    httpCalls,      \* GET requests sent to the oracle so far
    fetchRuns,      \* retry loops of fetch_all_prices started so far
    fetchMax,       \* max_retries of the last retry loop
    fetchLog,       \* how each attempt of the last retry loop ended, in order
    fetchWaits,     \* the sleeps of the last retry loop, in order
    priceCalls,     \* calls of fetch_all_prices and get_token_price so far
    priceRet,       \* what the last of these calls returned
    \* ---- calculate_aura_apr and _parse_pool ---------------------------
    aArg,           \* the arguments of the last calculate_aura_apr
    aRet,           \* what it returned
    enable_aura,    \* BalancerTracker.enable_aura
    auraSubgraph,   \* what find_pool_by_balancer_address answers: a pool or None
    pArg,           \* the arguments of the last _parse_pool
    pRet,           \* what it returned
    pOverlay,       \* what calculate_aura_apr returned inside that _parse_pool
    \* ---- PoolDataStore.get_history ----------------------------------
    qArg,           \* pool_key and days of the last get_history
    qFile,          \* the history file as that call found it
    qRet,           \* what it returned, or that it raised
    \* ---- two runs in append_history at once -------------------------
    rPc,            \* per run: "start", "loaded", "opened" or "done"
    rList,          \* per run: its pool_data_list
    rLocal,         \* per run: the history it loaded (its local `history`)
    raceStart,      \* the history file before either run
    raceOverlap,    \* both runs had the file open for writing at once
    lastWriter,     \* the run that dumped last, 0 before any dump
    \* ---- BalancerTracker.fetch_and_save ------------------------------
    fArg,           \* results, how the two writes end, the files before
    fRet,           \* what the last fetch_and_save returned or raised
    fTrace,         \* the store calls it made, in order, with their results
    fRuns,          \* number of fetch_and_save calls so far
    fLatest,        \* the latest run with a non-empty result list
    \* ---- BalancerTracker.track_pools ---------------------------------
    tConfig,        \* pools_config of the call
    tNet,           \* what the Balancer API answers to each request
    tRet,           \* what track_pools returned, or that it raised
    \* ---- one append_history on a history written earlier -------------
    hFound          \* the history file as that call found it

keyVars == <<kChain, kName, kKey, kDone>>
snapVars == <<latestFile, snapOp, snapRet, lastSaved, overwrote>>
histVars == <<historyFile, histOp, histArg, histMax, histRet, hLog, hEarlierLimit>>
priceVars == <<pricesFetched, priceCache, oracle, httpCalls, fetchRuns, fetchMax,
               fetchLog, fetchWaits, priceCalls, priceRet>>
auraVars == <<aArg, aRet>>
parseVars == <<enable_aura, auraSubgraph, pArg, pRet, pOverlay>>
queryVars == <<qArg, qFile, qRet>>
raceVars == <<rPc, rList, rLocal, raceStart, raceOverlap, lastWriter>>
persistVars == <<fArg, fRet, fTrace, fRuns, fLatest>>
trackVars == <<tConfig, tNet, tRet>>
foundVars == <<hFound>>

vars == <<kChain, kName, kKey, kDone, now,
          latestFile, snapOp, snapRet, lastSaved, overwrote,
          historyFile, histOp, histArg, histMax, histRet, hLog, hEarlierLimit,
          pricesFetched, priceCache, oracle, httpCalls, fetchRuns, fetchMax,
          fetchLog, fetchWaits, priceCalls, priceRet,
          aArg, aRet, enable_aura, auraSubgraph, pArg, pRet, pOverlay,
          qArg, qFile, qRet,
          rPc, rList, rLocal, raceStart, raceOverlap, lastWriter,
          fArg, fRet, fTrace, fRuns, fLatest,
          tConfig, tNet, tRet,
          hFound>>

\* Python's None, and an optional value: <<>> is None, <<x>> is the value x.
None == <<>>
Some(x) == <<x>>
IsNone(o) == o = <<>>

-----------------------------------------------------------------------------
(* Bounds                                                                  *)

MaxNameLen == 4
MaxSaveLen == 2     \* longest pool_data_list handed to save
MaxClock == 1       \* the latest time a run starts at
MaxAppendLen == 1   \* longest pool_data_list handed to append_history
MaxKeep == 2        \* largest max_snapshots passed
MaxLog == 3         \* entries appended to one key before the model stops
MaxRetriesArg == 3  \* largest max_retries passed to fetch_all_prices
MaxPriceCalls == 3  \* price-cache calls made on one AuraFinanceAPI
OracleLen == 3      \* length of the oracle's response script
MaxRewards == 2     \* rewardData entries of an Aura pool
MaxAprItems == 2    \* aprItems of a Balancer pool
MaxSeries == 2      \* entries of a series in a history file that is queried
MaxRuns == 2        \* fetch_and_save calls
MaxConfig == 2      \* entries of pools_config
MaxHeld == 3        \* entries of a history file that append_history finds

-----------------------------------------------------------------------------
(* Strings                                                                 *)

\* The characters pool names are drawn from: a lowercase letter, an
\* uppercase letter, a digit and three characters outside [a-z0-9].
NameChars == {"a", "B", "1", " ", "/", "_"}

\* str.lower() on one character.
LowerChar(c) ==
    CASE c = "B" -> "b"
      [] c = "E" -> "e"
      [] c = "A" -> "a"
      [] OTHER -> c

RECURSIVE LowerStr(_)
LowerStr(s) ==
    IF s = <<>> THEN <<>> ELSE <<LowerChar(Head(s))>> \o LowerStr(Tail(s))

\* The character class [a-z0-9] of the regular expression.
IsSlugChar(c) == c \in {"a", "b", "e", "t", "h", "r", "1"}

RECURSIVE DropRun(_)
\* s without its leading run of characters outside [a-z0-9].
DropRun(s) ==
    IF s = <<>> \/ IsSlugChar(Head(s)) THEN s ELSE DropRun(Tail(s))

RECURSIVE ReSub(_)
\* re.sub(r'[^a-z0-9]+', '_', s): every maximal run becomes one underscore.
ReSub(s) ==
    IF s = <<>> THEN <<>>
    ELSE IF IsSlugChar(Head(s)) THEN <<Head(s)>> \o ReSub(Tail(s))
    ELSE <<"_">> \o ReSub(DropRun(s))

RECURSIVE LStrip(_)
LStrip(s) == IF s # <<>> /\ Head(s) = "_" THEN LStrip(Tail(s)) ELSE s

RECURSIVE RStrip(_)
RStrip(s) ==
    IF s # <<>> /\ s[Len(s)] = "_" THEN RStrip(SubSeq(s, 1, Len(s) - 1)) ELSE s

\* str.strip('_')
Strip(s) == RStrip(LStrip(s))

\* The slug of a pool name: lines 356-357 of _generate_pool_key.
Slugify(name) == Strip(ReSub(LowerStr(name)))

\* PoolDataStore._generate_pool_key: f"{pool.chain}_{name}".
\* A key that tells redeployed pools apart.
KeyWithAddress(pool) == pool.chain \o <<"_">> \o Slugify(pool.name) \o <<"_", pool.address>>

GeneratePoolKey(pool) == pool.chain \o <<"_">> \o Slugify(pool.name)

RECURSIVE SeqsUpTo(_, _)
\* All sequences over S of length at most n.
SeqsUpTo(S, n) ==
    IF n = 0 THEN {<<>>}
    ELSE LET shorter == SeqsUpTo(S, n - 1)
         IN  shorter \cup {Append(s, c) : s \in {t \in shorter : Len(t) = n - 1}, c \in S}

Names == SeqsUpTo(NameChars, MaxNameLen)

\* Chain identifiers as a configuration file may spell them.
ChainNames == {<<"e", "t", "h">>, <<"E", "t", "h">>, <<"a", "r", "b">>}

-----------------------------------------------------------------------------
(* Numbers                                                                 *)

\* Python's round(), half to even, to the nearest multiple of step.
RoundHalfEven(x, step) ==
    LET q == x \div step
        r == x % step
    IN  IF 2 * r < step THEN q * step
        ELSE IF 2 * r > step THEN (q + 1) * step
        ELSE IF q % 2 = 0 THEN q * step ELSE (q + 1) * step

\* round(x, 2) of a money amount (unit 0.001).
Round2(x) == RoundHalfEven(x, 10)

\* round(x, 4) of a percentage (unit 0.00001).
Round4(x) == RoundHalfEven(x, 10)

\* round(o, n) if o is not None else None
RoundOpt2(o) == IF IsNone(o) THEN None ELSE Some(Round2(o[1]))
RoundOpt4(o) == IF IsNone(o) THEN None ELSE Some(Round4(o[1]))

RECURSIVE SumApy(_)
\* sum(r['apy'] for r in other_rewards)
SumApy(rs) == IF rs = <<>> THEN 0 ELSE Head(rs).apy + SumApy(Tail(rs))

-----------------------------------------------------------------------------
(* PoolData records handed to the store                                    *)

\* The dataclass PoolData.  The token composition fields (coins,
\* coin_ratios, coin_amounts, coin_prices) are copied through the store
\* unread and are left out, as is the display string tvl_formatted.
PoolData(name, chain, address, pool_id, tvl, base_apy, bal_rewards_apy, other_rewards, total_apy, aura_apy, aura_tvl, aura_boost, aura_staking_contract) ==
    [name |-> name, chain |-> chain, address |-> address, pool_id |-> pool_id,
     tvl |-> tvl, base_apy |-> base_apy, bal_rewards_apy |-> bal_rewards_apy,
     other_rewards |-> other_rewards, total_apy |-> total_apy,
     aura_apy |-> aura_apy, aura_tvl |-> aura_tvl, aura_boost |-> aura_boost,
     aura_staking_contract |-> aura_staking_contract]

\* Pools of the configuration: (name, chain, address, pool_id).  IdA2 is
\* IdA redeployed: another address and another spelling of the name.
IdA == <<(<<"a", "/", "B">>), (<<"e", "t", "h">>), "0xA1", "0xA1-id">>
IdA2 == <<(<<"A", " ", "b">>), (<<"e", "t", "h">>), "0xB2", "0xB2-id">>
IdC == <<(<<"1">>), (<<"a", "r", "b">>), "0xC3", "0xC3-id">>

StoreIdentities == {IdA, IdC}

\* The metric values a fetch cycle may attach to a pool:
\*   1  no overlay, values that round down, up and half to even;
\*   2  an overlay with every aura field present;
\*   3  tvl 0 with an overlay pool found: _parse_pool leaves aura_apy None
\*      and sets the other three aura fields (lines 886-905).
MetricProfiles == {1, 2, 3}

MakePool(id, profile) ==
    CASE profile = 1 ->
           PoolData(id[1], id[2], id[3], id[4], 1005, 12345, <<125, 136>>,
                    <<[token |-> "GHO", apy |-> 300000]>>, 312470,
                    None, None, None, None)
      [] profile = 2 ->
           PoolData(id[1], id[2], id[3], id[4], 1234567, 15, <<0, 0>>,
                    <<>>, 15, Some(99995), Some(2015), Some(2500), Some("0xR"))
      [] OTHER ->
           PoolData(id[1], id[2], id[3], id[4], 0, 0, <<0, 0>>,
                    <<>>, 0, None, Some(777), Some(2500), Some("0xR"))

\* The records of the fetch cycles modelled: each pool with two of the
\* metric profiles.
StoreRecords ==
    {MakePool(x[1], x[2]) :
        x \in {y \in StoreIdentities \X MetricProfiles :
                 (y[1][3] = "0xA1" /\ y[2] \in {1, 2}) \/
                 (y[1][3] = "0xC3" /\ y[2] \in {2, 3})}}

\* The lists save receives: [] and every list of at most MaxSaveLen records.
SaveLists == SeqsUpTo(StoreRecords, MaxSaveLen)

-----------------------------------------------------------------------------
(* JSON documents                                                          *)

\* dict.get(key, default) on a JSON object.
Get(obj, key, default) == IF key \in DOMAIN obj THEN obj[key] ELSE default

\* A file: absent, not JSON at all, or a JSON document "doc".  A document,
\* an element of a JSON array and the value of "pools" carry their JSON type
\* in the field "type".
MissingFile == [kind |-> "missing"]
MalformedFile == [kind |-> "malformed"]
JsonFile(doc) == [kind |-> "json", doc |-> doc]
JsonArray(items) == [type |-> "array", items |-> items]
JsonNull == [type |-> "null"]

\* PoolDataStore._pool_to_json
PoolToJson(pool) ==
    [type |-> "object",
     id |-> GeneratePoolKey(pool),
     name |-> pool.name,
     chain |-> pool.chain,
     address |-> pool.address,
     pool_id |-> pool.pool_id,
     data |-> [tvl |-> Round2(pool.tvl),
               base_apy |-> Round4(pool.base_apy),
               bal_rewards |->
                   [min |-> IF pool.bal_rewards_apy # <<>>
                            THEN Round4(pool.bal_rewards_apy[1]) ELSE 0,
                    max |-> IF Len(pool.bal_rewards_apy) > 1
                            THEN Round4(pool.bal_rewards_apy[2]) ELSE 0],
               other_rewards |-> pool.other_rewards,
               total_apy |-> Round4(pool.total_apy)],
     aura |-> IF ~IsNone(pool.aura_apy)
              THEN [apy |-> RoundOpt4(pool.aura_apy),
                    tvl |-> RoundOpt2(pool.aura_tvl),
                    boost |-> RoundOpt2(pool.aura_boost),
                    staking_contract |-> pool.aura_staking_contract]
              ELSE None]

\* PoolDataStore._json_to_pool: None when building the record raises.
JsonToPool(data) ==
    IF data.type # "object" THEN None
    ELSE LET pool_data == Get(data, "data", <<>>)
             aura == Get(data, "aura", None)
             bal_rewards == Get(pool_data, "bal_rewards", <<>>)
         IN  Some(PoolData(Get(data, "name", <<"U">>),
                           Get(data, "chain", <<"e", "t", "h">>),
                           Get(data, "address", ""),
                           Get(data, "pool_id", ""),
                           Get(pool_data, "tvl", 0),
                           Get(pool_data, "base_apy", 0),
                           <<Get(bal_rewards, "min", 0), Get(bal_rewards, "max", 0)>>,
                           Get(pool_data, "other_rewards", <<>>),
                           Get(pool_data, "total_apy", 0),
                           Get(aura, "apy", None),
                           Get(aura, "tvl", None),
                           Get(aura, "boost", None),
                           Get(aura, "staking_contract", None)))

RECURSIVE MapPoolToJson(_)
\* [self._pool_to_json(p) for p in pool_data_list]
MapPoolToJson(ps) ==
    IF ps = <<>> THEN <<>> ELSE <<PoolToJson(Head(ps))>> \o MapPoolToJson(Tail(ps))

RECURSIVE LoadPools(_)
\* The loop of load: every element that _json_to_pool can convert, in order.
LoadPools(items) ==
    IF items = <<>> THEN <<>>
    ELSE LET pool == JsonToPool(Head(items))
         IN  (IF IsNone(pool) THEN <<>> ELSE <<pool[1]>>) \o LoadPools(Tail(items))

\* The place of a chain name in the order of Python's strings.
ChainRank(c) == IF c = <<"E", "t", "h">> THEN 0 ELSE IF c = <<"a", "r", "b">> THEN 1 ELSE 2

RECURSIVE ChainsLargestFirst(_)
\* The chain names of a set, largest first.
ChainsLargestFirst(S) ==
    IF S = {} THEN <<>>
    ELSE LET m == CHOOSE c \in S : \A d \in S : ChainRank(c) >= ChainRank(d)
         IN  <<m>> \o ChainsLargestFirst(S \ {m})

RECURSIVE SortedChains(_)
\* sorted(set(...)) of chain names, smallest first.
SortedChains(S) ==
    IF S = {} THEN <<>>
    ELSE LET m == CHOOSE c \in S : \A d \in S : ChainRank(c) <= ChainRank(d)
         IN  <<m>> \o SortedChains(S \ {m})

\* The envelope save writes (lines 82-92).
SnapshotEnvelope(pool_data_list, timestamp) ==
    [type |-> "object",
     version |-> "1.0",
     metadata |-> [generated_at |-> timestamp,
                   source |-> "BalancerTracker",
                   total_pools |-> Len(pool_data_list),
                   chains |-> SortedChains({pool_data_list[i].chain :
                                               i \in 1..Len(pool_data_list)}),
                   has_aura |-> \E i \in 1..Len(pool_data_list) :
                                   ~IsNone(pool_data_list[i].aura_apy)],
     pools |-> JsonArray(MapPoolToJson(pool_data_list))]

\* Snapshot files found on disk when the store is constructed: none, a file
\* that is not JSON, JSON that is not an object, an object without "pools",
\* an object whose "pools" is null, and an object whose "pools" holds an
\* element that is not an object.
InitialLatestFiles ==
    {MissingFile, MalformedFile,
     JsonFile(JsonArray(<<>>)),
     JsonFile([type |-> "object", version |-> "1.0"]),
     JsonFile([type |-> "object", version |-> "1.0", pools |-> JsonNull]),
     JsonFile([type |-> "object", version |-> "1.0",
               pools |-> JsonArray(<<[type |-> "number"]>>)])}

-----------------------------------------------------------------------------
(* PoolDataStore.save and PoolDataStore.load                               *)

LatestPath == "data/balancer_pools_latest.json"

\* A save that merges: it keeps the records the file already holds and adds
\* the new ones after them.
SaveMerging(pool_data_list) ==
    /\ snapOp' = "save"
    /\ IF pool_data_list = <<>>
       THEN /\ snapRet' = [status |-> "ok", path |-> ""]
            /\ UNCHANGED <<latestFile, lastSaved, overwrote>>
       ELSE /\ latestFile' =
                 LET new == SnapshotEnvelope(pool_data_list, now)
                     old == IF lastSaved = <<>> THEN <<>>
                            ELSE latestFile.doc.pools.items
                 IN  JsonFile([new EXCEPT !.pools = JsonArray(old \o new.pools.items)])
            /\ snapRet' = [status |-> "ok", path |-> LatestPath]
            /\ lastSaved' = pool_data_list
            /\ overwrote' = (lastSaved # <<>> /\ lastSaved # pool_data_list)
    /\ UNCHANGED now

\* PoolDataStore.save
Save(pool_data_list) ==
    /\ snapOp' = "save"
    /\ IF pool_data_list = <<>>
       THEN /\ snapRet' = [status |-> "ok", path |-> ""]
            /\ UNCHANGED <<latestFile, lastSaved, overwrote>>
       ELSE /\ latestFile' = JsonFile(SnapshotEnvelope(pool_data_list, now))
            /\ snapRet' = [status |-> "ok", path |-> LatestPath]
            /\ lastSaved' = pool_data_list
            /\ overwrote' = (lastSaved # <<>> /\ lastSaved # pool_data_list)
    /\ UNCHANGED now

\* What load returns for a file content: the records, or the exception that
\* leaves load (only json.JSONDecodeError is caught, lines 124-126).
LoadResult(file) ==
    IF file.kind = "missing" THEN [status |-> "ok", pools |-> <<>>]
    ELSE IF file.kind = "malformed" THEN [status |-> "ok", pools |-> <<>>]
    ELSE IF file.doc.type # "object"
         THEN [status |-> "raised", exc |-> "AttributeError"]
    ELSE LET pools == Get(file.doc, "pools", JsonArray(<<>>))
         IN  IF pools.type # "array"
             THEN [status |-> "raised", exc |-> "TypeError"]
             ELSE [status |-> "ok", pools |-> LoadPools(pools.items)]

\* PoolDataStore.load
Load ==
    /\ snapOp' = "load"
    /\ snapRet' = LoadResult(latestFile)
    /\ UNCHANGED <<latestFile, lastSaved, overwrote, now>>

-----------------------------------------------------------------------------
(* PoolDataStore.append_history                                            *)

HistoryPath == "data/balancer_pools_history.json"

\* The records append_history receives in the runs modelled.
HistRecords == {MakePool(IdA, 1), MakePool(IdA2, 2), MakePool(IdC, 3)}
AppendLists == SeqsUpTo(HistRecords, MaxAppendLen)

\* max_snapshots: None, or a limit.
MaxSnapshotsArgs == {None} \cup {Some(n) : n \in 0..MaxKeep}

\* A JSON object keyed by pool key: a function from keys to slots.
JsonDict(slots) == [type |-> "object", slots |-> slots]
NoSlots == <<>>

\* PoolDataStore._empty_history
EmptyHistory(timestamp) ==
    [type |-> "object", version |-> "1.0", last_updated |-> timestamp,
     pools |-> JsonDict(NoSlots)]

\* The entry built from one record (lines 173-186); aura_apy and aura_tvl are
\* keys of the entry only when the record has them.
Snapshot(pool, timestamp) ==
    [timestamp |-> timestamp,
     tvl |-> Round2(pool.tvl),
     base_apy |-> Round4(pool.base_apy),
     bal_rewards_min |-> IF pool.bal_rewards_apy # <<>>
                         THEN Round4(pool.bal_rewards_apy[1]) ELSE 0,
     bal_rewards_max |-> IF Len(pool.bal_rewards_apy) > 1
                         THEN Round4(pool.bal_rewards_apy[2]) ELSE 0,
     total_apy |-> Round4(pool.total_apy),
     aura_apy |-> RoundOpt4(pool.aura_apy),
     aura_tvl |-> RoundOpt2(pool.aura_tvl)]

\* The slice snapshots[-n:] for n # 0.
TailSlice(snapshots, n) ==
    IF n > 0
    THEN SubSeq(snapshots, IF Len(snapshots) > n THEN Len(snapshots) - n + 1 ELSE 1,
                Len(snapshots))
    ELSE SubSeq(snapshots, 1 - n, Len(snapshots))

\* "if max_snapshots:" is false for None and for 0.
Truthy(max_snapshots) == ~IsNone(max_snapshots) /\ max_snapshots[1] # 0

\* A trim that keeps the oldest entries, snapshots[:max_snapshots].
TrimKeepsOldest(snapshots, max_snapshots) ==
    IF Truthy(max_snapshots) /\ Len(snapshots) > max_snapshots[1]
    THEN SubSeq(snapshots, 1, max_snapshots[1])
    ELSE snapshots

\* A trim that takes every limit at its word, 0 included: it keeps the
\* last max_snapshots entries whenever a limit is given.
TrimEveryLimit(snapshots, max_snapshots) ==
    IF ~IsNone(max_snapshots) /\ Len(snapshots) > max_snapshots[1]
    THEN SubSeq(snapshots, Len(snapshots) - max_snapshots[1] + 1, Len(snapshots))
    ELSE snapshots

\* Lines 190-194: the trim of the series just appended to.
Trim(snapshots, max_snapshots) ==
    IF Truthy(max_snapshots) /\ Len(snapshots) > max_snapshots[1]
    THEN TailSlice(snapshots, max_snapshots[1])
    ELSE snapshots

\* A pass that puts the new entry in front of the series.
PrependOne(slots, pool, timestamp, max_snapshots) ==
    LET pool_key == GeneratePoolKey(pool)
        created == [metadata |-> [name |-> pool.name, chain |-> pool.chain,
                                  address |-> pool.address, pool_id |-> pool.pool_id],
                    snapshots |-> <<>>]
        slot == IF pool_key \in DOMAIN slots THEN slots[pool_key] ELSE created
        kept == [slot EXCEPT !.snapshots =
                    Trim(<<Snapshot(pool, timestamp)>> \o slot.snapshots, max_snapshots)]
    IN  [k \in DOMAIN slots \cup {pool_key} |-> IF k = pool_key THEN kept ELSE slots[k]]

\* A pass that trims every series of the history, not the one it appended to.
AppendOneTrimsAll(slots, pool, timestamp, max_snapshots) ==
    LET pool_key == GeneratePoolKey(pool)
        created == [metadata |-> [name |-> pool.name, chain |-> pool.chain,
                                  address |-> pool.address, pool_id |-> pool.pool_id],
                    snapshots |-> <<>>]
        slot == IF pool_key \in DOMAIN slots THEN slots[pool_key] ELSE created
        appended == [slot EXCEPT !.snapshots = Append(slot.snapshots, Snapshot(pool, timestamp))]
    IN  [k \in DOMAIN slots \cup {pool_key} |->
            LET s == IF k = pool_key THEN appended ELSE slots[k]
            IN  [s EXCEPT !.snapshots = Trim(s.snapshots, max_snapshots)]]

\* A pass that writes the metadata of the slot from every record.
AppendOneRefreshes(slots, pool, timestamp, max_snapshots) ==
    LET pool_key == GeneratePoolKey(pool)
        metadata == [name |-> pool.name, chain |-> pool.chain,
                     address |-> pool.address, pool_id |-> pool.pool_id]
        snapshots == IF pool_key \in DOMAIN slots THEN slots[pool_key].snapshots ELSE <<>>
        kept == [metadata |-> metadata,
                 snapshots |-> Trim(Append(snapshots, Snapshot(pool, timestamp)),
                                    max_snapshots)]
    IN  [k \in DOMAIN slots \cup {pool_key} |-> IF k = pool_key THEN kept ELSE slots[k]]

\* One pass of the loop of append_history (lines 159-194).
AppendOne(slots, pool, timestamp, max_snapshots) ==
    LET pool_key == GeneratePoolKey(pool)
        created == [metadata |-> [name |-> pool.name, chain |-> pool.chain,
                                  address |-> pool.address, pool_id |-> pool.pool_id],
                    snapshots |-> <<>>]
        slot == IF pool_key \in DOMAIN slots THEN slots[pool_key] ELSE created
        appended == Append(slot.snapshots, Snapshot(pool, timestamp))
        kept == [slot EXCEPT !.snapshots = Trim(appended, max_snapshots)]
    IN  [k \in DOMAIN slots \cup {pool_key} |-> IF k = pool_key THEN kept ELSE slots[k]]

RECURSIVE AppendAll(_, _, _, _)
\* The loop over pool_data_list.
AppendAll(slots, pool_data_list, timestamp, max_snapshots) ==
    IF pool_data_list = <<>> THEN slots
    ELSE AppendAll(AppendOne(slots, Head(pool_data_list), timestamp, max_snapshots),
                   Tail(pool_data_list), timestamp, max_snapshots)

\* The history append_history starts from (lines 145-153): the document of
\* the file, or an empty history when there is no file or it is not JSON.
LoadHistory(file, timestamp) ==
    IF file.kind = "json" THEN file.doc ELSE EmptyHistory(timestamp)

\* The exception that leaves append_history for a history document that is
\* not the expected object, "" when there is none: history["last_updated"]
\* on a list, history["pools"] without that key, "in" on null.
HistoryFault(history) ==
    IF history.type # "object" THEN "TypeError"
    ELSE IF "pools" \notin DOMAIN history THEN "KeyError"
    ELSE IF history.pools.type # "object" THEN "TypeError"
    ELSE ""

\* The log of appended entries after a call that wrote the file.
RECURSIVE LogAll(_, _, _)
LogAll(log, pool_data_list, timestamp) ==
    IF pool_data_list = <<>> THEN log
    ELSE LET pool_key == GeneratePoolKey(Head(pool_data_list))
             before == IF pool_key \in DOMAIN log THEN log[pool_key] ELSE <<>>
             after == Append(before, Snapshot(Head(pool_data_list), timestamp))
         IN  LogAll([k \in DOMAIN log \cup {pool_key} |->
                        IF k = pool_key THEN after ELSE log[k]],
                    Tail(pool_data_list), timestamp)

\* PoolDataStore.append_history
AppendHistory(pool_data_list, max_snapshots) ==
    /\ histOp' = "append"
    /\ histArg' = pool_data_list
    /\ histMax' = max_snapshots
    /\ hEarlierLimit' = (hEarlierLimit \/ (histOp = "append" /\ ~IsNone(histMax)))
    /\ IF pool_data_list = <<>>
       THEN /\ histRet' = [status |-> "ok", path |-> ""]
            /\ UNCHANGED <<historyFile, hLog>>
       ELSE LET history == LoadHistory(historyFile, now)
            IN  IF HistoryFault(history) # ""
                THEN /\ histRet' = [status |-> "raised", exc |-> HistoryFault(history)]
                     /\ UNCHANGED <<historyFile, hLog>>
                ELSE /\ historyFile' =
                          JsonFile([history EXCEPT
                              !.last_updated = now,
                              !.pools = JsonDict(AppendAll(history.pools.slots,
                                            pool_data_list, now, max_snapshots))])
                     /\ histRet' = [status |-> "ok", path |-> HistoryPath]
                     /\ hLog' = LogAll(hLog, pool_data_list, now)
    /\ UNCHANGED now

\* History files found on disk when the store is constructed: none, a file
\* that is not JSON, JSON that is not an object, an object without "pools",
\* and an object whose "pools" is null.
InitialHistoryFiles ==
    {MissingFile, MalformedFile,
     JsonFile(JsonArray(<<>>)),
     JsonFile([type |-> "object", version |-> "1.0"]),
     JsonFile([type |-> "object", version |-> "1.0", pools |-> JsonNull])}

-----------------------------------------------------------------------------
(* AuraFinanceAPI: the price cache                                         *)
(*                                                                         *)
(* In this part money is in whole USD and a percentage in units of 0.01    *)
(* percent.                                                                *)

\* AuraFinanceAPI.COINGECKO_IDS
CoingeckoIds ==
    [symbol \in {"AURA", "BAL", "GHO", "USDC", "OP", "axlOP"} |->
        CASE symbol = "AURA" -> "aura-finance"
          [] symbol = "BAL" -> "balancer"
          [] symbol = "GHO" -> "gho"
          [] symbol = "USDC" -> "usd-coin"
          [] OTHER -> "optimism"]

\* str.upper() on the symbols looked up.
Upper(symbol) ==
    CASE symbol = "bal" -> "BAL"
      [] symbol = "aura" -> "AURA"
      [] symbol = "axlOP" -> "AXLOP"
      [] OTHER -> symbol

\* One entry of the body of a 200 response: the CoinGecko id and the object
\* under it with its "usd" price, if it has one; object is FALSE for an entry
\* that is no JSON object (null).
PriceEntry(id, object, usd) == [id |-> id, object |-> object, usd |-> usd]

\* The bodies of the 200 responses, entries in the order of the document.
PriceTables ==
    {<<PriceEntry("balancer", TRUE, Some(3)), PriceEntry("aura-finance", TRUE, Some(2)),
       PriceEntry("gho", TRUE, Some(2)), PriceEntry("usd-coin", TRUE, Some(2)),
       PriceEntry("optimism", TRUE, Some(2))>>,
     <<PriceEntry("aura-finance", TRUE, Some(2)), PriceEntry("gho", TRUE, None),
       PriceEntry("usd-coin", TRUE, Some(0)), PriceEntry("bitcoin", TRUE, Some(2))>>,
     <<PriceEntry("balancer", TRUE, Some(3))>>,
     <<PriceEntry("balancer", TRUE, Some(3)), PriceEntry("gho", FALSE, None)>>}

\* What one GET returns: a 200 with a JSON object as body, a 429, another
\* HTTP error status (raise_for_status), or an exception that is no HTTPError
\* (timeout, connection error, a body that is not JSON).
Responses ==
    {[status |-> "ok", data |-> t] : t \in PriceTables}
      \cup {[status |-> "429"], [status |-> "http_error"], [status |-> "exception"]}

\* The response to the n-th request (n from 0): the script repeats.
ResponseAt(script, n) == script[(n % Len(script)) + 1]

RECURSIVE MapPrices(_, _)
\* Lines 331-335: the entries of the body in order; a price that is truthy
\* and whose id is tracked is stored under every symbol of that id.  An entry
\* that is no object raises at price_data.get: the loop stops there, with
\* what it had stored.
MapPrices(data, cache) ==
    IF data = <<>> THEN [cache |-> cache, raised |-> FALSE]
    ELSE LET entry == Head(data)
             symbols == {symbol \in DOMAIN CoingeckoIds : CoingeckoIds[symbol] = entry.id}
             price == entry.usd
         IN  IF ~entry.object THEN [cache |-> cache, raised |-> TRUE]
             ELSE IF price # None /\ price[1] # 0 /\ symbols # {}
             THEN MapPrices(Tail(data),
                            [symbol \in DOMAIN cache \cup symbols |->
                                IF symbol \in symbols THEN price[1] ELSE cache[symbol]])
             ELSE MapPrices(Tail(data), cache)

\* 2 ** n
RECURSIVE Pow2(_)
Pow2(n) == IF n = 0 THEN 1 ELSE 2 * Pow2(n - 1)

\* wait_time = (2 ** attempt) * 2
BackoffWait(attempt) == Pow2(attempt) * 2

\* Lines 341-347: sleep and try again only after a 429 that is not the last
\* attempt allowed.
ShouldRetry(status, attempt, max_retries) ==
    status = "429" /\ attempt < max_retries - 1

RECURSIVE FetchLoop(_, _, _, _, _)
\* The retry loop (lines 324-352) from attempt on, the oracle having
\* answered `sent` requests before the loop: the cache, how each attempt
\* ended ("ok", "429", "http_error", "exception", or "bad_body" for a 200
\* whose body raised while it was mapped) and the sleeps made.
FetchLoop(attempt, max_retries, script, sent, cache) ==
    IF attempt >= max_retries
    THEN [cache |-> cache, log |-> <<>>, waits |-> <<>>]
    ELSE LET response == ResponseAt(script, sent + attempt)
         IN  IF response.status = "ok"
             THEN LET mapped == MapPrices(response.data, cache)
                  IN  [cache |-> mapped.cache,
                       log |-> <<IF mapped.raised THEN "bad_body" ELSE "ok">>,
                       waits |-> <<>>]
             ELSE IF ShouldRetry(response.status, attempt, max_retries)
             THEN LET rest == FetchLoop(attempt + 1, max_retries, script, sent, cache)
                  IN  [cache |-> rest.cache,
                       log |-> <<response.status>> \o rest.log,
                       waits |-> <<BackoffWait(attempt)>> \o rest.waits]
             ELSE [cache |-> cache, log |-> <<response.status>>, waits |-> <<>>]

\* A fetch that marks the cache as attempted only when it got prices.
MarkedOnSuccessOnly(log) == log # <<>> /\ log[Len(log)] = "ok"

\* _prices_fetched after the loop: set on success (line 337) and after every
\* failure (line 354).
MarkedAttempted(log) == TRUE

\* The effect of fetch_all_prices(max_retries) on the instance.
FetchEffect(max_retries) ==
    IF pricesFetched
    THEN UNCHANGED <<pricesFetched, priceCache, httpCalls, fetchRuns, fetchMax,
                     fetchLog, fetchWaits>>
    ELSE LET run == FetchLoop(0, max_retries, oracle, httpCalls, priceCache)
         IN  /\ priceCache' = run.cache
             /\ pricesFetched' = MarkedAttempted(run.log)
             /\ httpCalls' = httpCalls + Len(run.log)
             /\ fetchRuns' = fetchRuns + 1
             /\ fetchMax' = max_retries
             /\ fetchLog' = run.log
             /\ fetchWaits' = run.waits

\* AuraFinanceAPI.fetch_all_prices
FetchAllPrices(max_retries) ==
    /\ FetchEffect(max_retries)
    /\ priceCalls' = priceCalls + 1
    /\ priceRet' = [op |-> "fetch_all_prices", value |-> priceCache']
    /\ UNCHANGED oracle

\* The default of max_retries.
DefaultMaxRetries == 3

\* Lines 364-369: the exact symbol, then the uppercased symbol, else None.
LookupPrice(cache, symbol) ==
    IF symbol \in DOMAIN cache THEN Some(cache[symbol])
    ELSE IF Upper(symbol) \in DOMAIN cache THEN Some(cache[Upper(symbol)])
    ELSE None

\* AuraFinanceAPI.get_token_price
GetTokenPrice(symbol) ==
    /\ FetchEffect(DefaultMaxRetries)
    /\ priceCalls' = priceCalls + 1
    /\ priceRet' = [op |-> "get_token_price", value |-> LookupPrice(priceCache', symbol)]
    /\ UNCHANGED oracle

\* The symbols looked up: tracked ones, a lowercase spelling, an unknown one.
LookupSymbols == {"BAL", "AURA", "GHO", "axlOP", "bal", "XYZ"}

\* The scripts of the oracle.
OracleScripts == {s \in SeqsUpTo(Responses, OracleLen) : Len(s) = OracleLen}

\* The empty cache of __init__.
NoPrices == <<>>

-----------------------------------------------------------------------------
(* AuraFinanceAPI.calculate_aura_apr and get_aura_tvl                      *)
(*                                                                         *)
(* A raw on-chain amount (rewardRate, totalStaked) is digits * 10^exp.     *)

RawAmount(digits, exp) == [digits |-> digits, exp |-> exp]

\* 10 ** n
RECURSIVE Pow10(_)
Pow10(n) == IF n = 0 THEN 1 ELSE 10 * Pow10(n - 1)

\* seconds_per_year
SecondsPerYear == 365 * 86400

\* int(token.get('decimals', 18) or 18)
Decimals(token) ==
    IF token.decimals = None \/ token.decimals = Some(0) THEN 18 ELSE token.decimals[1]

\* (reward_rate / (10 ** decimals)) * seconds_per_year
TokensPerYear(reward_rate, decimals) ==
    IF reward_rate.exp >= decimals
    THEN reward_rate.digits * Pow10(reward_rate.exp - decimals) * SecondsPerYear
    ELSE (reward_rate.digits * SecondsPerYear) \div Pow10(decimals - reward_rate.exp)

\* apr = (tokens_per_year * token_price / tvl) * 100, the quotient kept to
\* two decimals so that the percentage is in units of 0.01 percent.
RewardApr(tokens_per_year, token_price, tvl) ==
    ((tokens_per_year * token_price * 100) \div tvl) * 100

\* One entry of rewardData.
Reward(symbol, decimals, rewardRate) ==
    [token |-> [symbol |-> symbol, decimals |-> decimals], rewardRate |-> rewardRate]

\* One pool of the Aura subgraph.
AuraPool(rewardData, totalStaked, rewardPool) ==
    [rewardData |-> rewardData, totalStaked |-> totalStaked, rewardPool |-> rewardPool]

\* A fallback that treats the AURA reward like the BAL reward.
FallbackBothCurrencies(token_symbol, acc, bal_max_apr) ==
    CASE token_symbol = "BAL" -> [acc EXCEPT !.bal_apr = bal_max_apr]
      [] token_symbol = "AURA" -> [acc EXCEPT !.aura_apr = bal_max_apr]
      [] OTHER -> acc

\* Lines 455-458: no price for the reward: bal_max_apr stands in for BAL, any
\* other reward is passed over.
Fallback(token_symbol, acc, bal_max_apr) ==
    IF token_symbol = "BAL" THEN [acc EXCEPT !.bal_apr = bal_max_apr] ELSE acc

\* Lines 464-469: the APR of a priced reward goes to its role.
Credit(token_symbol, acc, apr) ==
    CASE token_symbol = "BAL" -> [acc EXCEPT !.bal_apr = apr]
      [] token_symbol = "AURA" -> [acc EXCEPT !.aura_apr = apr]
      [] OTHER -> [acc EXCEPT !.extra_apr = acc.extra_apr + apr]

\* A test that lets a negative rate through.
SkipsZeroRateOnly(reward_rate) == reward_rate.digits = 0

\* Line 448: if reward_rate <= 0: continue
SkipsReward(reward_rate) == reward_rate.digits <= 0

RECURSIVE RewardLoop(_, _, _, _, _)
\* The loop over rewardData (lines 441-469).
RewardLoop(reward_data, acc, cache, tvl, bal_max_apr) ==
    IF reward_data = <<>> THEN acc
    ELSE LET reward == Head(reward_data)
             token_symbol == reward.token.symbol
             token_price == LookupPrice(cache, token_symbol)
             next ==
                 IF SkipsReward(reward.rewardRate) THEN acc
                 ELSE IF token_price = None \/ token_price[1] = 0
                 THEN Fallback(token_symbol, acc, bal_max_apr)
                 ELSE Credit(token_symbol, acc,
                             RewardApr(TokensPerYear(reward.rewardRate, Decimals(reward.token)),
                                       token_price[1], tvl))
         IN  RewardLoop(Tail(reward_data), next, cache, tvl, bal_max_apr)

\* The empty dict.
EmptyDict == [type |-> "empty"]

\* What calculate_aura_apr returns, the prices being those of cache.
\* A guard that lets a negative tvl through.
ReturnsEmptyAtZeroOnly(aura_pool, tvl) == aura_pool = None \/ tvl = 0

\* Line 432: if not aura_pool or tvl <= 0
ReturnsEmpty(aura_pool, tvl) == aura_pool = None \/ tvl <= 0

AuraAprData(aura_pool, tvl, bal_max_apr, cache) ==
    IF ReturnsEmpty(aura_pool, tvl) THEN EmptyDict
    ELSE LET acc == RewardLoop(aura_pool[1].rewardData,
                               [bal_apr |-> 0, aura_apr |-> 0, extra_apr |-> 0],
                               cache, tvl, bal_max_apr)
         IN  [type |-> "apr",
              total_apr |-> acc.bal_apr + acc.aura_apr + acc.extra_apr,
              bal_apr |-> acc.bal_apr, aura_apr |-> acc.aura_apr,
              extra_apr |-> acc.extra_apr]

\* calculate_aura_apr reaches get_token_price: the pool is there, the tvl is
\* positive and some reward has a positive rate.
AsksPrice(aura_pool, tvl) ==
    /\ aura_pool # None
    /\ tvl > 0
    /\ \E i \in 1..Len(aura_pool[1].rewardData) : aura_pool[1].rewardData[i].rewardRate.digits > 0

\* The effect of calculate_aura_apr on the price cache: the first
\* get_token_price fetches the prices.
PricesFor(aura_pool, tvl) ==
    IF AsksPrice(aura_pool, tvl)
    THEN FetchEffect(DefaultMaxRetries)
    ELSE UNCHANGED <<pricesFetched, priceCache, httpCalls, fetchRuns, fetchMax,
                     fetchLog, fetchWaits>>

\* AuraFinanceAPI.calculate_aura_apr
CalculateAuraApr(aura_pool, tvl, bal_max_apr) ==
    /\ PricesFor(aura_pool, tvl)
    /\ aRet' = AuraAprData(aura_pool, tvl, bal_max_apr, priceCache')
    /\ UNCHANGED <<oracle, priceCalls, priceRet>>

\* AuraFinanceAPI.get_aura_tvl: totalStaked / 1e18 * bpt_price
GetAuraTvl(aura_pool, bpt_price) ==
    IF aura_pool = None THEN 0
    ELSE LET total_staked == aura_pool[1].totalStaked
         IN  (IF total_staked.exp >= 18
              THEN total_staked.digits * Pow10(total_staked.exp - 18)
              ELSE total_staked.digits \div Pow10(18 - total_staked.exp)) * bpt_price

\* The TVL of the pools: a year of seconds times ten, so that the APRs of
\* the rewards below are whole units.
TvlUnit == SecondsPerYear * 10

\* The rewards a pool of the subgraph carries: a tenth or two tenths of a
\* token per second, none, or a negative rate; "bal" is a reward spelled in
\* lower case, and the last one has no decimals field.
RewardChoices ==
    {Reward(symbol, Some(18), RawAmount(digits, 17)) :
         symbol \in {"BAL", "AURA", "GHO", "bal"}, digits \in (0 - 1)..2}
      \cup {Reward("GHO", None, RawAmount(1, 17))}

\* One-response scripts of the oracle: every request gets the same answer.
SteadyScripts == {<<r>> : r \in Responses}

-----------------------------------------------------------------------------
(* BalancerTracker._parse_pool                                             *)
(*                                                                         *)
(* The apr of an aprItem is a fraction in units of 0.01; times 100 it is a *)
(* percentage in units of 0.01 percent.                                    *)

\* One entry of aprItems.
AprItem(type, title, apr) == [type |-> type, title |-> title, apr |-> apr]

\* Lines 825-842: one aprItem classified.
Classify(acc, item) ==
    LET apr_value == item.apr * 100
    IN  CASE item.type = "SWAP_FEE_24H" -> [acc EXCEPT !.base_apy = apr_value]
          [] item.type = "VEBAL_EMISSIONS" -> [acc EXCEPT !.bal_base = apr_value]
          [] item.type = "STAKING_BOOST" -> [acc EXCEPT !.bal_boost = apr_value]
          [] OTHER ->
              IF apr_value > 0
              THEN [acc EXCEPT !.other_rewards =
                        Append(@, [token |-> item.title, apy |-> apr_value])]
              ELSE acc

RECURSIVE ClassifyAll(_, _)
\* The loop over aprItems.
ClassifyAll(apr_items, acc) ==
    IF apr_items = <<>> THEN acc
    ELSE ClassifyAll(Tail(apr_items), Classify(acc, Head(apr_items)))

\* A total built on the boosted reward figure.
TotalApyBoosted(base_apy, bal_rewards, other_rewards) ==
    base_apy + bal_rewards[2] + SumApy(other_rewards)

\* Line 848: total_apy = base_apy + bal_rewards[0] + sum of the other APYs
TotalApy(base_apy, bal_rewards, other_rewards) ==
    base_apy + bal_rewards[1] + SumApy(other_rewards)

\* An overlaid APY that leaves the other rewards out.
AuraApyWithoutOthers(base_apy, aura_apr_data, other_rewards) ==
    base_apy + aura_apr_data.total_apr

\* Line 893: aura_apy = base_apy + total_apr + sum of the other APYs
AuraApy(base_apy, aura_apr_data, other_rewards) ==
    base_apy + aura_apr_data.total_apr + SumApy(other_rewards)

\* aura_boost = 2.5, in thousandths.
AuraMaxBoost == 2500

\* The record _parse_pool builds from a pool_data that is there, the
\* subgraph answering aura_pool and the prices being those of cache.
ParsedPool(pool_data, chain, aura_on, aura_pool, cache) ==
    LET dynamic == pool_data.dynamicData
        tvl == dynamic.totalLiquidity
        acc == ClassifyAll(dynamic.aprItems,
                           [base_apy |-> 0, bal_base |-> 0, bal_boost |-> 0,
                            other_rewards |-> <<>>])
        bal_rewards == <<acc.bal_base, acc.bal_base + acc.bal_boost>>
        total_apy == TotalApy(acc.base_apy, bal_rewards, acc.other_rewards)
        found == aura_on /\ aura_pool # None
        aura_apr_data == AuraAprData(aura_pool, tvl, bal_rewards[2], cache)
        total_shares == dynamic.totalShares
        bpt_price == IF total_shares > 0 THEN tvl \div total_shares ELSE 1
    IN  PoolData(pool_data.name, chain, pool_data.address, pool_data.id,
                 tvl, acc.base_apy, bal_rewards, acc.other_rewards, total_apy,
                 IF found /\ aura_apr_data # EmptyDict
                 THEN Some(AuraApy(acc.base_apy, aura_apr_data, acc.other_rewards))
                 ELSE None,
                 IF found THEN Some(GetAuraTvl(aura_pool, bpt_price)) ELSE None,
                 IF found THEN Some(AuraMaxBoost) ELSE None,
                 IF found THEN aura_pool[1].rewardPool ELSE None)

\* Line 889 seen from outside: what calculate_aura_apr returned to
\* _parse_pool, or that _parse_pool did not call it.
OverlayCall(pool_data, aura_pool, cache) ==
    IF pool_data = None \/ aura_pool = None THEN [type |-> "not_called"]
    ELSE LET dynamic == pool_data[1].dynamicData
             acc == ClassifyAll(dynamic.aprItems,
                                [base_apy |-> 0, bal_base |-> 0, bal_boost |-> 0,
                                 other_rewards |-> <<>>])
         IN  AuraAprData(aura_pool, dynamic.totalLiquidity,
                         acc.bal_base + acc.bal_boost, cache)

\* BalancerTracker._parse_pool
ParsePool(pool_data, chain, aura_enabled) ==
    LET aura_on == enable_aura /\ aura_enabled
        aura_pool == IF aura_on /\ pool_data # None THEN auraSubgraph ELSE None
    IN  /\ IF pool_data = None
           THEN UNCHANGED <<pricesFetched, priceCache, httpCalls, fetchRuns, fetchMax,
                            fetchLog, fetchWaits>>
           ELSE PricesFor(aura_pool, pool_data[1].dynamicData.totalLiquidity)
        /\ pRet' = [status |-> "returned",
                    value |-> IF pool_data = None THEN None
                              ELSE Some(ParsedPool(pool_data[1], chain, aura_on,
                                                   aura_pool, priceCache'))]
        /\ pOverlay' = OverlayCall(pool_data, aura_pool, priceCache')
        /\ UNCHANGED <<oracle, priceCalls, priceRet, enable_aura, auraSubgraph>>

\* The aprItems of the pools: the three types the parser names and one it
\* does not, with a negative, a zero and positive fractions.
AprItems ==
    {AprItem(type, "Reward APR", apr) :
         type \in {"SWAP_FEE_24H", "VEBAL_EMISSIONS", "STAKING_BOOST", "MERKL"},
         apr \in {-1, 0, 2}}

\* A pool with a swap fee of 0.05, base emissions of 0.02 and a boost of
\* 0.03.
ExampleItems ==
    <<AprItem("SWAP_FEE_24H", "Swap fees APR", 5),
      AprItem("VEBAL_EMISSIONS", "BAL reward APR", 2),
      AprItem("STAKING_BOOST", "BAL reward APR", 3)>>

\* pool_data as find_pool returns it: None, or a pool of the API.
PoolInputs ==
    {None} \cup
    {Some([name |-> <<"a", "/", "B">>, address |-> "0xA1", id |-> "0xA1-id",
           dynamicData |-> [totalLiquidity |-> tvl, totalShares |-> total_shares,
                            aprItems |-> apr_items]]) :
         tvl \in {0 - TvlUnit, 0, TvlUnit},
         total_shares \in {0, TvlUnit \div 2},
         apr_items \in SeqsUpTo(AprItems, MaxAprItems) \cup {ExampleItems}}

\* What the subgraph may hold for the pool's address.
SubgraphAnswers ==
    {None,
     Some(AuraPool(<<Reward("BAL", Some(18), RawAmount(1, 17))>>,
                   RawAmount(5, 18), Some("0xR"))),
     Some(AuraPool(<<Reward("BAL", Some(18), RawAmount(1, 17)),
                     Reward("AURA", Some(18), RawAmount(2, 17))>>,
                   RawAmount(0, 18), None)),
     Some(AuraPool(<<>>, RawAmount(5, 18), Some("0xR")))}

-----------------------------------------------------------------------------
(* PoolDataStore.get_history                                               *)
(*                                                                         *)
(* Time is in hours.  The "timestamp" of an entry read from a file is a    *)
(* JSON value: a string, with the time it parses to under                  *)
(* "%Y-%m-%dT%H:%M:%SZ" or None when it does not parse, or null.           *)

Stamp(time) == [type |-> "string", time |-> time]
NullStamp == [type |-> "null"]

\* Lines 390-395 for one entry: the time strptime returns, or the exception
\* it or the subscript raises: KeyError without the key, ValueError for a
\* string that does not parse, TypeError for a value that is no string.
StrpTime(snapshot) ==
    IF "timestamp" \notin DOMAIN snapshot THEN [raised |-> "KeyError"]
    ELSE IF snapshot.timestamp.type # "string" THEN [raised |-> "TypeError"]
    ELSE IF snapshot.timestamp.time = None THEN [raised |-> "ValueError"]
    ELSE [raised |-> "", ts |-> snapshot.timestamp.time[1]]

\* timedelta(days=days), in hours
TimeDelta(days) == days * 24

RECURSIVE FilterLoop(_, _)
\* The loop of _filter_by_days (lines 388-395): the entries kept, or the
\* exception that leaves the loop; KeyError and ValueError are caught.
FilterLoop(snapshots, cutoff) ==
    IF snapshots = <<>> THEN [raised |-> "", kept |-> <<>>]
    ELSE LET parsed == StrpTime(Head(snapshots))
             rest == FilterLoop(Tail(snapshots), cutoff)
         IN  IF parsed.raised \in {"KeyError", "ValueError"} THEN rest
             ELSE IF parsed.raised # "" THEN [raised |-> parsed.raised, kept |-> <<>>]
             ELSE IF rest.raised # "" THEN rest
             ELSE IF parsed.ts >= cutoff
                  THEN [raised |-> "", kept |-> <<Head(snapshots)>> \o rest.kept]
                  ELSE rest

\* "if days:" is false for None and for 0.
DaysGiven(days) == days # None /\ days[1] # 0

\* PoolDataStore._filter_by_days
FilterByDays(pool_data, days, clock) ==
    IF "snapshots" \notin DOMAIN pool_data THEN [status |-> "ok", value |-> pool_data]
    ELSE LET loop == FilterLoop(pool_data.snapshots, clock - TimeDelta(days))
         IN  IF loop.raised # "" THEN [status |-> "raised", error |-> loop.raised]
             ELSE [status |-> "ok", value |-> [pool_data EXCEPT !.snapshots = loop.kept]]

\* The empty dict a lookup falls back to.
NoDict == <<>>

\* Lines 229-234: every slot filtered; the first exception leaves the call.
FilterAll(slots, days, clock) ==
    LET each == [k \in DOMAIN slots |-> FilterByDays(slots[k], days, clock)]
    IN  IF \E k \in DOMAIN slots : each[k].status = "raised"
        THEN [status |-> "raised",
              error |-> each[CHOOSE k \in DOMAIN slots : each[k].status = "raised"].error]
        ELSE [status |-> "ok",
              value |-> [pools |-> [k \in DOMAIN slots |-> each[k].value]]]

\* What get_history returns for a file, or the exception that leaves it.
HistoryResult(file, pool_key, days, clock) ==
    IF file.kind # "json" THEN [status |-> "ok", value |-> NoDict]
    ELSE IF pool_key = None /\ ~DaysGiven(days) THEN [status |-> "ok", value |-> file.doc]
    ELSE IF file.doc.type # "object" THEN [status |-> "raised", error |-> "AttributeError"]
    ELSE LET pools == Get(file.doc, "pools", JsonDict(NoSlots))
         IN  IF pools.type # "object" THEN [status |-> "raised", error |-> "AttributeError"]
             ELSE IF pool_key # None
             THEN LET pool_history == Get(pools.slots, pool_key[1], NoDict)
                  IN  IF DaysGiven(days)
                      THEN FilterByDays(pool_history, days[1], clock)
                      ELSE [status |-> "ok", value |-> pool_history]
             ELSE FilterAll(pools.slots, days[1], clock)

\* PoolDataStore.get_history
GetHistory(pool_key, days) ==
    /\ qArg' = [pool_key |-> pool_key, days |-> days]
    /\ qFile' = historyFile
    /\ qRet' = HistoryResult(historyFile, pool_key, days, now)
    /\ UNCHANGED historyFile

\* The hour at which the history is queried: ten days after hour 0.
QueryNow == 240

\* The entries of the files queried: written ten days, seven days and one
\* day before QueryNow, with a timestamp that does not parse, with a null
\* timestamp, and without a timestamp.
QueryEntries ==
    {[timestamp |-> Stamp(Some(t)), total_apy |-> 700] : t \in {0, 72, 216}}
      \cup {[timestamp |-> Stamp(None), total_apy |-> 700],
            [timestamp |-> NullStamp, total_apy |-> 700],
            [total_apy |-> 700]}

\* The key of the pool queried, and a key no file has.
QueryKey == GeneratePoolKey(MakePool(IdA, 1))
AbsentKey == GeneratePoolKey(MakePool(IdC, 2))
OtherKey == <<"a", "r", "b", "_", "x">>

\* The slot of a pool with a series.
QuerySlot(snapshots) ==
    [metadata |-> [name |-> IdA[1], chain |-> IdA[2], address |-> IdA[3], pool_id |-> IdA[4]],
     snapshots |-> snapshots]

\* The history files queried: those append_history may find, and documents
\* with one or two pools.
QueryFiles ==
    InitialHistoryFiles
      \cup {JsonFile([type |-> "object", version |-> "1.0", last_updated |-> 0,
                      pools |-> JsonDict([k \in {QueryKey} |-> QuerySlot(series)])]) :
                series \in SeqsUpTo(QueryEntries, MaxSeries)}
      \cup {JsonFile([type |-> "object", version |-> "1.0", last_updated |-> 0,
                      pools |-> JsonDict([k \in {QueryKey, OtherKey} |->
                                  IF k = QueryKey
                                  THEN QuerySlot(<<[timestamp |-> Stamp(Some(0)), total_apy |-> 700],
                                                   [timestamp |-> Stamp(Some(216)), total_apy |-> 700]>>)
                                  ELSE [metadata |-> [name |-> <<"x">>]]])])}

\* The arguments of get_history.
KeyArgs == {None, Some(QueryKey), Some(AbsentKey)}
DaysArgs == {None} \cup {Some(days) : days \in {0, 1, 7, 10, 11}}

-----------------------------------------------------------------------------
(* append_history by two runs on one history file                          *)
(*                                                                         *)
(* A run reads the file (lines 146-153), then builds the new document in   *)
(* memory and opens the file with mode "w", which empties it (line 197),   *)
(* then dumps the document (line 198).  Nothing orders the steps of one    *)
(* run with those of the other.                                            *)

Runs == {1, 2}

\* The other run.
Other(r) == 3 - r

\* A document made of the new entries alone.
WrittenAfresh(history, pool_data_list, timestamp) ==
    [EmptyHistory(timestamp) EXCEPT
        !.pools = JsonDict(AppendAll(NoSlots, pool_data_list, timestamp, None))]

\* Lines 156-194: the document a run dumps, built on the history it loaded.
WrittenDocument(history, pool_data_list, timestamp) ==
    [history EXCEPT
        !.last_updated = timestamp,
        !.pools = JsonDict(AppendAll(history.pools.slots, pool_data_list, timestamp, None))]

\* Lines 146-153 of run r.
RunLoad(r) ==
    /\ rPc[r] = "start"
    /\ rLocal' = [rLocal EXCEPT ![r] = LoadHistory(historyFile, now)]
    /\ rPc' = [rPc EXCEPT ![r] = "loaded"]
    /\ UNCHANGED <<historyFile, rList, raceStart, raceOverlap, lastWriter>>

\* open(self.history_file, "w") of run r: the file is there and empty.
RunOpen(r) ==
    /\ rPc[r] = "loaded"
    /\ historyFile' = MalformedFile
    /\ rPc' = [rPc EXCEPT ![r] = "opened"]
    /\ raceOverlap' = (raceOverlap \/ rPc[Other(r)] = "opened")
    /\ UNCHANGED <<rList, rLocal, raceStart, lastWriter>>

\* json.dump of run r.  When both runs had the file open at once, each
\* writes from offset 0 over the bytes of the other: the file holds the
\* document of the run that dumps last, or text that is not JSON.
RunDump(r) ==
    /\ rPc[r] = "opened"
    /\ historyFile' \in
          {JsonFile(WrittenDocument(rLocal[r], rList[r], now))}
            \cup (IF raceOverlap /\ lastWriter = Other(r) THEN {MalformedFile} ELSE {})
    /\ rPc' = [rPc EXCEPT ![r] = "done"]
    /\ lastWriter' = r
    /\ UNCHANGED <<rList, rLocal, raceStart, raceOverlap>>

\* The history files the runs may find: none, or one with an entry.
RaceFiles ==
    {MissingFile,
     JsonFile(WrittenDocument(EmptyHistory(0), <<MakePool(IdA, 1)>>, 0))}

-----------------------------------------------------------------------------
(* fetch_and_save: a run that persists what it tracked                     *)

\* How "with open(path, "w") as f: json.dump(data, f, indent=2)" can end:
\* the document is written; open raises OSError and the file is as it was;
\* or the file is opened, which empties it, and the dump raises OSError
\* part of the way, which leaves text that is not JSON.
WriteOutcomes == {"written", "open_fails", "dump_fails"}

\* The file after the write (data_store.py 94-95 and 197-198).
WriteFile(old, doc, outcome) ==
    IF outcome = "written" THEN JsonFile(doc)
    ELSE IF outcome = "open_fails" THEN old
    ELSE MalformedFile

\* A write whose failure is caught, with the path returned all the same.
WriteSwallowed(path, outcome) == [status |-> "ok", path |-> path]

\* What the operation hands its caller after the write: neither save nor
\* append_history has a handler around it, so OSError leaves the operation
\* and the return statement is not reached.
WriteResult(path, outcome) ==
    IF outcome = "written" THEN [status |-> "ok", path |-> path]
    ELSE [status |-> "raised", exc |-> "OSError"]

\* PoolDataStore.save on a file, with the end of its write given.
SaveCall(pool_data_list, file, timestamp, outcome) ==
    IF pool_data_list = <<>>
    THEN [file |-> file, ret |-> [status |-> "ok", path |-> ""]]
    ELSE [file |-> WriteFile(file, SnapshotEnvelope(pool_data_list, timestamp), outcome),
          ret |-> WriteResult(LatestPath, outcome)]

\* PoolDataStore.append_history without max_snapshots on a file, with the
\* end of its write given.
AppendCall(pool_data_list, file, timestamp, outcome) ==
    IF pool_data_list = <<>>
    THEN [file |-> file, ret |-> [status |-> "ok", path |-> ""]]
    ELSE LET history == LoadHistory(file, timestamp)
         IN  IF HistoryFault(history) # ""
             THEN [file |-> file,
                   ret |-> [status |-> "raised", exc |-> HistoryFault(history)]]
             ELSE [file |-> WriteFile(file,
                               WrittenDocument(history, pool_data_list, timestamp),
                               outcome),
                   ret |-> WriteResult(HistoryPath, outcome)]

\* One store call as fetch_and_save made it.
StoreCall(op, outcome, ret) == [op |-> op, outcome |-> outcome, ret |-> ret]

\* BalancerTracker.fetch_and_save, with results what track_pools returned
\* and disk how the write of each file ends. Both store calls read the
\* clock of the run; the next run finds a later one.
FetchAndSave(results, disk) ==
    LET saved == SaveCall(results, latestFile, now, disk.latest)
        appended == AppendCall(results, historyFile, now, disk.history)
    IN  /\ fArg' = [results |-> results, disk |-> disk,
                    latest_before |-> latestFile, history_before |-> historyFile]
        /\ fRuns' = fRuns + 1
        /\ fLatest' = IF results = <<>> THEN fLatest
                      ELSE [results |-> results, time |-> now,
                            written |-> disk.latest = "written" /\ disk.history = "written"]
        /\ IF results = <<>>
           THEN /\ fRet' = [status |-> "returned", results |-> results]
                /\ fTrace' = <<>>
                /\ UNCHANGED <<latestFile, historyFile>>
           ELSE IF saved.ret.status = "raised"
           THEN /\ fRet' = saved.ret
                /\ fTrace' = <<StoreCall("save", disk.latest, saved.ret)>>
                /\ latestFile' = saved.file
                /\ UNCHANGED historyFile
           ELSE /\ fRet' = IF appended.ret.status = "raised" THEN appended.ret
                           ELSE [status |-> "returned", results |-> results]
                /\ fTrace' = <<StoreCall("save", disk.latest, saved.ret),
                               StoreCall("append_history", disk.history, appended.ret)>>
                /\ latestFile' = saved.file
                /\ historyFile' = appended.file
        /\ now' = now + 1

\* How the two writes of one run end.
DiskOutcomes == [latest : WriteOutcomes, history : WriteOutcomes]

\* What track_pools hands fetch_and_save: [] or some records.
TrackedLists == SeqsUpTo(HistRecords, MaxAppendLen)

-----------------------------------------------------------------------------
(* track_pools: one request per chain, one more per full pool id           *)

Ethereum == <<"e", "t", "h", "e", "r", "e", "u", "m">>
Arbitrum == <<"a", "r", "b", "i", "t", "r", "u", "m">>

\* BalancerAPI._gql_chain, with the keys of CHAIN_MAP that the model uses:
\* a name that is not a key is MAINNET.
GqlChain(chain) == IF LowerStr(chain) = Arbitrum THEN "ARBITRUM" ELSE "MAINNET"

\* An address or a pool id: "0x", the text of its hex digits written short,
\* and the number of hex digits it stands for (40 or 64).
Ident(text, digits) == [text |-> text, digits |-> digits]

\* a.lower()
LowerId(a) == [a EXCEPT !.text = LowerStr(a.text)]

\* len(a.replace('0x', '')) > 42
IsFullId(a) == a.digits > 42

AddrA == Ident(<<"0", "x", "A", "1">>, 40)
AddrB == Ident(<<"0", "x", "B", "2">>, 40)
AddrE == Ident(<<"0", "x", "E", "3">>, 40)
PoolIdE == Ident(<<"0", "x", "e", "3", "0", "1">>, 64)

\* A pool as the API describes it.
ApiPool(address, id) ==
    [type |-> "object", address |-> LowerId(address), id |-> id,
     name |-> <<"a", "/", "B">>,
     dynamicData |-> [totalLiquidity |-> TvlUnit, totalShares |-> TvlUnit \div 2,
                      aprItems |-> ExampleItems]]

\* What a function returned, or the exception that left it.
Returned(value) == [status |-> "returned", value |-> value]
Raised(exc) == [status |-> "raised", exc |-> exc]

\* The answers to one POST: no connection or a timeout, a status that
\* raise_for_status rejects, a body that is not JSON, or a JSON body.
ConnectionError == [kind |-> "connection_error"]
HttpError == [kind |-> "http_error"]
NotJson == [kind |-> "not_json"]
Body(doc) == [kind |-> "json", doc |-> doc]
EmptyObject == [type |-> "object"]

\* BalancerAPI._make_request. The handler catches RequestException:
\* the connection and status errors are such, and the error of
\* response.json() is one in the versions of requests that raise
\* requests.exceptions.JSONDecodeError and a plain ValueError in the older
\* ones (json_error_caught). "errors" in result raises on null;
\* result.get raises on a list.
MakeRequest(response, json_error_caught) ==
    IF response.kind \in {"connection_error", "http_error"} THEN Returned(EmptyObject)
    ELSE IF response.kind = "not_json"
         THEN IF json_error_caught THEN Returned(EmptyObject)
              ELSE Raised("JSONDecodeError")
    ELSE LET result == response.doc
         IN  IF result.type = "null" THEN Raised("TypeError")
             ELSE IF result.type = "array" THEN Raised("AttributeError")
             ELSE IF "errors" \in DOMAIN result THEN Returned(EmptyObject)
             ELSE Returned(Get(result, "data", EmptyObject))

\* BalancerAPI.get_pools_by_address: the pools of the chain's list whose
\* address is one of those asked for.
GetPoolsByAddress(addresses, response, json_error_caught) ==
    LET made == MakeRequest(response, json_error_caught)
    IN  IF made.status = "raised" THEN made
        ELSE IF made.value.type # "object" THEN Raised("AttributeError")
        ELSE LET all_pools == Get(made.value, "poolGetPools", JsonArray(<<>>))
             IN  IF all_pools.type # "array" THEN Raised("TypeError")
                 ELSE Returned(SelectSeq(all_pools.items,
                          LAMBDA pool : \E i \in 1..Len(addresses) :
                              LowerId(pool.address) = LowerId(addresses[i])))

\* BalancerAPI.get_pool_by_id: the pool, or None.
GetPoolById(response, json_error_caught) ==
    LET made == MakeRequest(response, json_error_caught)
    IN  IF made.status = "raised" THEN made
        ELSE IF made.value.type # "object" THEN Raised("AttributeError")
        ELSE LET pool == Get(made.value, "poolGetPool", JsonNull)
             IN  Returned(IF pool.type = "null" THEN None ELSE Some(pool))

\* _parse_pool of a tracker built without the Aura overlay.
ParseTracked(pool_data, chain) == ParsedPool(pool_data, chain, FALSE, None, NoPrices)

RECURSIVE ParseEach(_, _)
\* Lines 965-973: the records of the pools a batch request returned.
ParseEach(pools, chain) ==
    IF pools = <<>> THEN <<>>
    ELSE <<ParseTracked(Head(pools), chain)>> \o ParseEach(Tail(pools), chain)

RECURSIVE FetchFullIds(_, _, _)
\* Lines 976-983: one request per full id; an exception ends the loop.
FetchFullIds(full_ids, chain, net) ==
    IF full_ids = <<>> THEN Returned(<<>>)
    ELSE LET got == GetPoolById(net.by_id[Head(full_ids)], net.json_error_caught)
         IN  IF got.status = "raised" THEN got
             ELSE LET rest == FetchFullIds(Tail(full_ids), chain, net)
                  IN  IF rest.status = "raised" THEN rest
                      ELSE Returned((IF got.value = None THEN <<>>
                                     ELSE <<ParseTracked(got.value[1], chain)>>)
                                    \o rest.value)

\* [cfg['pool'] for cfg in pool_configs]
RECURSIVE Addresses(_)
Addresses(pool_configs) ==
    IF pool_configs = <<>> THEN <<>>
    ELSE <<Head(pool_configs).pool>> \o Addresses(Tail(pool_configs))

\* Lines 953-983: the records of one chain.
TrackChain(chain, pool_configs, net) ==
    LET addresses == Addresses(pool_configs)
        full_ids == SelectSeq(addresses, IsFullId)
        short_addrs == SelectSeq(addresses, LAMBDA a : ~IsFullId(a))
        batch == IF short_addrs = <<>> THEN Returned(<<>>)
                 ELSE GetPoolsByAddress(short_addrs, net.batch[GqlChain(chain)],
                                        net.json_error_caught)
    IN  IF batch.status = "raised" THEN batch
        ELSE LET single == FetchFullIds(full_ids, chain, net)
             IN  IF single.status = "raised" THEN single
                 ELSE Returned(ParseEach(batch.value, chain) \o single.value)

\* Lines 945-950: the chains of pools_config in the order they first appear.
RECURSIVE ChainOrder(_, _)
ChainOrder(pools_config, seen) ==
    IF pools_config = <<>> THEN seen
    ELSE LET chain == Head(pools_config).chain
         IN  ChainOrder(Tail(pools_config),
                        IF \E i \in 1..Len(seen) : seen[i] = chain THEN seen
                        ELSE Append(seen, chain))

\* by_chain[chain]
ByChain(pools_config, chain) == SelectSeq(pools_config, LAMBDA cfg : cfg.chain = chain)

RECURSIVE TrackChains(_, _, _)
\* Lines 952-985: chain after chain; an exception ends the loop.
TrackChains(chains, pools_config, net) ==
    IF chains = <<>> THEN Returned(<<>>)
    ELSE LET first == TrackChain(Head(chains), ByChain(pools_config, Head(chains)), net)
         IN  IF first.status = "raised" THEN first
             ELSE LET rest == TrackChains(Tail(chains), pools_config, net)
                  IN  IF rest.status = "raised" THEN rest
                      ELSE Returned(first.value \o rest.value)

\* BalancerTracker.track_pools
TrackPools(pools_config, net) ==
    /\ tRet' = TrackChains(ChainOrder(pools_config, <<>>), pools_config, net)
    /\ UNCHANGED <<tConfig, tNet>>

\* The entries of pools_config: two pools of Ethereum by address, one pool
\* of Arbitrum by address and by its full id.
ConfigEntries ==
    {[chain |-> Ethereum, pool |-> AddrA], [chain |-> Ethereum, pool |-> AddrB],
     [chain |-> Arbitrum, pool |-> AddrE], [chain |-> Arbitrum, pool |-> PoolIdE]}
Configs == SeqsUpTo(ConfigEntries, MaxConfig)

\* The pools the API has on each chain, in the order of its list.
ChainPools(gql_chain) ==
    IF gql_chain = "MAINNET"
    THEN <<ApiPool(AddrB, Ident(<<"0", "x", "b", "2", "0", "1">>, 64)),
           ApiPool(AddrA, Ident(<<"0", "x", "a", "1", "0", "1">>, 64))>>
    ELSE <<ApiPool(AddrE, PoolIdE)>>

\* A request that is answered as the API documents it.
BatchAnswer(gql_chain) ==
    Body([type |-> "object",
          data |-> [type |-> "object", poolGetPools |-> JsonArray(ChainPools(gql_chain))]])
IdAnswer ==
    Body([type |-> "object",
          data |-> [type |-> "object", poolGetPool |-> ApiPool(AddrE, PoolIdE)]])

\* The answers that are not: transport errors, a GraphQL error, and bodies
\* that are JSON without being the expected object.
Failures ==
    {ConnectionError, HttpError, NotJson,
     Body([type |-> "object", errors |-> JsonArray(<<>>), data |-> JsonNull]),
     Body(EmptyObject),
     Body([type |-> "object", data |-> JsonNull]),
     Body(JsonNull),
     Body(JsonArray(<<>>))}

GqlChains == {"MAINNET", "ARBITRUM"}

Networks ==
    [batch : {f \in [GqlChains -> UNION {Failures \cup {BatchAnswer(c)} : c \in GqlChains}] :
                 \A c \in GqlChains : f[c] \in Failures \cup {BatchAnswer(c)}},
     by_id : [{PoolIdE} -> Failures \cup
                 {IdAnswer,
                  Body([type |-> "object",
                        data |-> [type |-> "object", poolGetPool |-> JsonNull]])}],
     json_error_caught : BOOLEAN]

-----------------------------------------------------------------------------
(* One append_history on a history that earlier calls wrote                *)

\* The history files earlier calls without a limit left at time 0: one for
\* every sequence of at most MaxHeld records, each appended by its own call.
WrittenHistories ==
    {JsonFile(WrittenDocument(EmptyHistory(0), pool_data_list, 0)) :
         pool_data_list \in SeqsUpTo(HistRecords, MaxHeld)}

\* The files the call finds: those, and the files of InitialHistoryFiles.
FoundFiles == WrittenHistories \cup InitialHistoryFiles

-----------------------------------------------------------------------------
(* The parts of the state a specification leaves alone                     *)

KeyIdle ==
    /\ kChain = <<>> /\ kName = <<>> /\ kKey = <<>> /\ kDone = FALSE

SnapIdle ==
    /\ latestFile = MissingFile
    /\ snapOp = "none"
    /\ snapRet = [status |-> "none"]
    /\ lastSaved = <<>>
    /\ overwrote = FALSE

HistIdle ==
    /\ historyFile = MissingFile
    /\ histOp = "none"
    /\ histArg = <<>>
    /\ histMax = None
    /\ histRet = [status |-> "none"]
    /\ hLog = NoSlots
    /\ hEarlierLimit = FALSE

PriceIdle ==
    /\ pricesFetched = FALSE
    /\ priceCache = NoPrices
    /\ oracle = <<[status |-> "exception"]>>
    /\ httpCalls = 0
    /\ fetchRuns = 0
    /\ fetchMax = 0
    /\ fetchLog = <<>>
    /\ fetchWaits = <<>>
    /\ priceCalls = 0
    /\ priceRet = [op |-> "none"]

AuraIdle ==
    /\ aArg = [aura_pool |-> None, tvl |-> 0, bal_max_apr |-> 0]
    /\ aRet = [type |-> "none"]

ParseIdle ==
    /\ enable_aura = FALSE
    /\ auraSubgraph = None
    /\ pArg = [pool_data |-> None, aura_enabled |-> FALSE]
    /\ pRet = [status |-> "none"]
    /\ pOverlay = [type |-> "not_called"]

QueryIdle ==
    /\ qArg = [pool_key |-> None, days |-> None]
    /\ qFile = MissingFile
    /\ qRet = [status |-> "none"]

PersistIdle ==
    /\ fArg = [results |-> <<>>]
    /\ fRet = [status |-> "none"]
    /\ fTrace = <<>>
    /\ fRuns = 0
    /\ fLatest = [results |-> <<>>]

FoundIdle == hFound = MissingFile

TrackIdle ==
    /\ tConfig = <<>>
    /\ tNet = [json_error_caught |-> TRUE]
    /\ tRet = [status |-> "none"]

RaceIdle ==
    /\ rPc = [r \in Runs |-> "start"]
    /\ rList = [r \in Runs |-> <<>>]
    /\ rLocal = [r \in Runs |-> EmptyHistory(0)]
    /\ raceStart = MissingFile
    /\ raceOverlap = FALSE
    /\ lastWriter = 0

-----------------------------------------------------------------------------
(* SpecKey: _generate_pool_key on every bounded (chain, name)              *)

KeyInit ==
    /\ kChain \in ChainNames
    /\ kName \in Names
    /\ kKey = <<>>
    /\ kDone = FALSE
    /\ now = 0
    /\ SnapIdle /\ HistIdle /\ PriceIdle /\ AuraIdle /\ ParseIdle /\ QueryIdle /\ RaceIdle /\ PersistIdle /\ TrackIdle /\ FoundIdle

GenerateKey ==
    /\ ~kDone
    /\ kKey' = GeneratePoolKey([chain |-> kChain, name |-> kName])
    /\ kDone' = TRUE
    /\ UNCHANGED <<kChain, kName, now>>
    /\ UNCHANGED <<snapVars, histVars, priceVars, auraVars, parseVars, queryVars, raceVars, persistVars, trackVars, foundVars>>

KeyNext == GenerateKey

SpecKey == KeyInit /\ [][KeyNext]_vars

-----------------------------------------------------------------------------
(* SpecSnapshot: save and load on one snapshot file                        *)

SnapInit ==
    /\ now \in 0..MaxClock
    /\ latestFile \in InitialLatestFiles
    /\ snapOp = "none"
    /\ snapRet = [status |-> "none"]
    /\ lastSaved = <<>>
    /\ overwrote = FALSE
    /\ KeyIdle /\ HistIdle /\ PriceIdle /\ AuraIdle /\ ParseIdle /\ QueryIdle /\ RaceIdle /\ PersistIdle /\ TrackIdle /\ FoundIdle

DoSave ==
    /\ \E pool_data_list \in SaveLists : Save(pool_data_list)
    /\ UNCHANGED <<keyVars, histVars, priceVars, auraVars, parseVars, queryVars, raceVars, persistVars, trackVars, foundVars>>

DoLoad == Load /\ UNCHANGED <<keyVars, histVars, priceVars, auraVars, parseVars, queryVars, raceVars, persistVars, trackVars, foundVars>>

SnapNext == DoSave \/ DoLoad

SpecSnapshot == SnapInit /\ [][SnapNext]_vars

-----------------------------------------------------------------------------
(* SpecHistory: append_history on one history file                         *)

HistInit ==
    /\ now = 0
    /\ historyFile \in InitialHistoryFiles
    /\ histOp = "none"
    /\ histArg = <<>>
    /\ histMax = None
    /\ histRet = [status |-> "none"]
    /\ hLog = NoSlots
    /\ hEarlierLimit = FALSE
    /\ KeyIdle /\ SnapIdle /\ PriceIdle /\ AuraIdle /\ ParseIdle /\ QueryIdle /\ RaceIdle /\ PersistIdle /\ TrackIdle /\ FoundIdle

\* The number of records of pool_data_list whose key is k.
CountKey(pool_data_list, k) ==
    Cardinality({i \in 1..Len(pool_data_list) : GeneratePoolKey(pool_data_list[i]) = k})

\* The model stops appending to a key that has received MaxLog entries.
FitsLog(pool_data_list) ==
    \A k \in DOMAIN hLog : Len(hLog[k]) + CountKey(pool_data_list, k) <= MaxLog

DoAppendHistory ==
    /\ \E pool_data_list \in AppendLists, max_snapshots \in MaxSnapshotsArgs :
          /\ FitsLog(pool_data_list)
          /\ AppendHistory(pool_data_list, max_snapshots)
    /\ UNCHANGED <<keyVars, snapVars, priceVars, auraVars, parseVars, queryVars, raceVars, persistVars, trackVars, foundVars>>

HistNext == DoAppendHistory

SpecHistory == HistInit /\ [][HistNext]_vars

-----------------------------------------------------------------------------
(* SpecPrices: fetch_all_prices and get_token_price on one AuraFinanceAPI  *)

PriceInit ==
    /\ pricesFetched = FALSE
    /\ priceCache = NoPrices
    /\ oracle \in OracleScripts
    /\ httpCalls = 0
    /\ fetchRuns = 0
    /\ fetchMax = 0
    /\ fetchLog = <<>>
    /\ fetchWaits = <<>>
    /\ priceCalls = 0
    /\ priceRet = [op |-> "none"]
    /\ now = 0
    /\ KeyIdle /\ SnapIdle /\ HistIdle /\ AuraIdle /\ ParseIdle /\ QueryIdle /\ RaceIdle /\ PersistIdle /\ TrackIdle /\ FoundIdle

DoFetchAllPrices ==
    /\ priceCalls < MaxPriceCalls
    /\ \E max_retries \in 0..MaxRetriesArg : FetchAllPrices(max_retries)
    /\ UNCHANGED <<now, keyVars, snapVars, histVars, auraVars, parseVars, queryVars, raceVars, persistVars, trackVars, foundVars>>

DoGetTokenPrice ==
    /\ priceCalls < MaxPriceCalls
    /\ \E symbol \in LookupSymbols : GetTokenPrice(symbol)
    /\ UNCHANGED <<now, keyVars, snapVars, histVars, auraVars, parseVars, queryVars, raceVars, persistVars, trackVars, foundVars>>

PriceNext == DoFetchAllPrices \/ DoGetTokenPrice

SpecPrices == PriceInit /\ [][PriceNext]_vars

-----------------------------------------------------------------------------
(* SpecAura: calculate_aura_apr on a fresh AuraFinanceAPI                  *)

\* The state of a fresh AuraFinanceAPI in front of an oracle.
FreshPrices(scripts) ==
    /\ pricesFetched = FALSE
    /\ priceCache = NoPrices
    /\ oracle \in scripts
    /\ httpCalls = 0
    /\ fetchRuns = 0
    /\ fetchMax = 0
    /\ fetchLog = <<>>
    /\ fetchWaits = <<>>
    /\ priceCalls = 0
    /\ priceRet = [op |-> "none"]

AuraInit ==
    /\ FreshPrices(SteadyScripts)
    /\ aArg \in [aura_pool : {None} \cup
                               {Some(AuraPool(rewardData, RawAmount(5, 18), Some("0xR"))) :
                                    rewardData \in SeqsUpTo(RewardChoices, MaxRewards)},
                  tvl : {0 - TvlUnit, 0, TvlUnit},
                  bal_max_apr : {0, 500}]
    /\ aRet = [type |-> "none"]
    /\ now = 0
    /\ KeyIdle /\ SnapIdle /\ HistIdle /\ ParseIdle /\ QueryIdle /\ RaceIdle /\ PersistIdle /\ TrackIdle /\ FoundIdle

DoCalculateAuraApr ==
    /\ aRet.type = "none"
    /\ CalculateAuraApr(aArg.aura_pool, aArg.tvl, aArg.bal_max_apr)
    /\ UNCHANGED <<now, aArg, keyVars, snapVars, histVars, parseVars, queryVars, raceVars, persistVars, trackVars, foundVars>>

AuraNext == DoCalculateAuraApr

SpecAura == AuraInit /\ [][AuraNext]_vars

-----------------------------------------------------------------------------
(* SpecParse: _parse_pool on a fresh BalancerTracker                       *)

\* The oracle answers with prices for every token, or fails.
ParseScripts ==
    {script \in SteadyScripts :
         script[1].status = "exception"
           \/ (script[1].status = "ok" /\ Len(script[1].data) = 5)}

ParseInit ==
    /\ FreshPrices(ParseScripts)
    /\ enable_aura \in BOOLEAN
    /\ auraSubgraph \in (IF enable_aura THEN SubgraphAnswers ELSE {None})
    /\ pArg \in [pool_data : PoolInputs,
                  aura_enabled : IF enable_aura THEN BOOLEAN ELSE {FALSE}]
    /\ pRet = [status |-> "none"]
    /\ pOverlay = [type |-> "not_called"]
    /\ now = 0
    /\ KeyIdle /\ SnapIdle /\ HistIdle /\ AuraIdle /\ QueryIdle /\ RaceIdle /\ PersistIdle /\ TrackIdle /\ FoundIdle

DoParsePool ==
    /\ pRet.status = "none"
    /\ ParsePool(pArg.pool_data, <<"e", "t", "h">>, pArg.aura_enabled)
    /\ UNCHANGED <<now, pArg, keyVars, snapVars, histVars, auraVars, queryVars, raceVars, persistVars, trackVars, foundVars>>

ParseNext == DoParsePool

SpecParse == ParseInit /\ [][ParseNext]_vars

-----------------------------------------------------------------------------
(* SpecQuery: get_history on the history files                             *)

QueryInit ==
    /\ historyFile \in QueryFiles
    /\ now = QueryNow
    /\ histOp = "none"
    /\ histArg = <<>>
    /\ histMax = None
    /\ histRet = [status |-> "none"]
    /\ hLog = <<>>
    /\ hEarlierLimit = FALSE
    /\ qArg = [pool_key |-> None, days |-> None]
    /\ qFile = MissingFile
    /\ qRet = [status |-> "none"]
    /\ KeyIdle /\ SnapIdle /\ PriceIdle /\ AuraIdle /\ ParseIdle /\ RaceIdle /\ PersistIdle /\ TrackIdle /\ FoundIdle

DoGetHistory ==
    /\ \E pool_key \in KeyArgs, days \in DaysArgs : GetHistory(pool_key, days)
    /\ UNCHANGED <<now, histOp, histArg, histMax, histRet, hLog, hEarlierLimit>>
    /\ UNCHANGED <<keyVars, snapVars, priceVars, auraVars, parseVars, raceVars, persistVars, trackVars, foundVars>>

QueryNext == DoGetHistory

SpecQuery == QueryInit /\ [][QueryNext]_vars

-----------------------------------------------------------------------------
(* SpecRace: two runs in append_history at once                            *)

RaceInit ==
    /\ historyFile \in RaceFiles
    /\ raceStart = historyFile
    /\ now = 0
    /\ histOp = "none"
    /\ histArg = <<>>
    /\ histMax = None
    /\ histRet = [status |-> "none"]
    /\ hLog = NoSlots
    /\ hEarlierLimit = FALSE
    /\ rPc = [r \in Runs |-> "start"]
    /\ rList \in [Runs -> {list \in AppendLists : list # <<>>}]
    /\ rLocal = [r \in Runs |-> EmptyHistory(0)]
    /\ raceOverlap = FALSE
    /\ lastWriter = 0
    /\ KeyIdle /\ SnapIdle /\ PriceIdle /\ AuraIdle /\ ParseIdle /\ QueryIdle /\ PersistIdle /\ TrackIdle /\ FoundIdle

RaceRest ==
    UNCHANGED <<now, histOp, histArg, histMax, histRet, hLog, hEarlierLimit,
                keyVars, snapVars, priceVars, auraVars, parseVars, queryVars,
                persistVars, trackVars, foundVars>>

DoRunLoad == (\E r \in Runs : RunLoad(r)) /\ RaceRest

DoRunOpen == (\E r \in Runs : RunOpen(r)) /\ RaceRest

DoRunDump == (\E r \in Runs : RunDump(r)) /\ RaceRest

RaceNext == DoRunLoad \/ DoRunOpen \/ DoRunDump

SpecRace == RaceInit /\ [][RaceNext]_vars

-----------------------------------------------------------------------------
(* SpecPersist: fetch_and_save runs whose writes may fail                  *)

PersistInit ==
    /\ now = 0
    /\ latestFile \in {MissingFile, MalformedFile}
    /\ historyFile \in InitialHistoryFiles
    /\ snapOp = "none"
    /\ snapRet = [status |-> "none"]
    /\ lastSaved = <<>>
    /\ overwrote = FALSE
    /\ histOp = "none"
    /\ histArg = <<>>
    /\ histMax = None
    /\ histRet = [status |-> "none"]
    /\ hLog = NoSlots
    /\ hEarlierLimit = FALSE
    /\ PersistIdle
    /\ KeyIdle /\ PriceIdle /\ AuraIdle /\ ParseIdle /\ QueryIdle /\ RaceIdle /\ TrackIdle /\ FoundIdle

DoFetchAndSave ==
    /\ fRuns < MaxRuns
    /\ \E results \in TrackedLists, disk \in DiskOutcomes : FetchAndSave(results, disk)
    /\ UNCHANGED <<snapOp, snapRet, lastSaved, overwrote>>
    /\ UNCHANGED <<histOp, histArg, histMax, histRet, hLog, hEarlierLimit>>
    /\ UNCHANGED <<keyVars, priceVars, auraVars, parseVars, queryVars, raceVars, trackVars, foundVars>>

PersistNext == DoFetchAndSave

SpecPersist == PersistInit /\ [][PersistNext]_vars

-----------------------------------------------------------------------------
(* SpecTrack: track_pools on every bounded configuration and network       *)

TrackInit ==
    /\ now = 0
    /\ tConfig \in Configs
    /\ tNet \in Networks
    /\ tRet = [status |-> "none"]
    /\ KeyIdle /\ SnapIdle /\ HistIdle /\ PriceIdle /\ AuraIdle /\ ParseIdle /\ QueryIdle /\ RaceIdle /\ PersistIdle /\ FoundIdle

DoTrackPools ==
    /\ tRet.status = "none"
    /\ TrackPools(tConfig, tNet)
    /\ UNCHANGED <<now, keyVars, snapVars, histVars, priceVars, auraVars, parseVars, queryVars, raceVars, persistVars, foundVars>>

TrackNext == DoTrackPools

SpecTrack == TrackInit /\ [][TrackNext]_vars

-----------------------------------------------------------------------------
(* SpecAppend: one append_history on every bounded history file            *)

AppendInit ==
    /\ now = 1
    /\ hFound \in FoundFiles
    /\ historyFile = hFound
    /\ histOp = "none"
    /\ histArg = <<>>
    /\ histMax = None
    /\ histRet = [status |-> "none"]
    /\ hLog = NoSlots
    /\ hEarlierLimit = FALSE
    /\ KeyIdle /\ SnapIdle /\ PriceIdle /\ AuraIdle /\ ParseIdle /\ QueryIdle /\ RaceIdle /\ PersistIdle /\ TrackIdle

DoAppendOnce ==
    /\ histOp = "none"
    /\ \E pool_data_list \in AppendLists, max_snapshots \in MaxSnapshotsArgs :
          AppendHistory(pool_data_list, max_snapshots)
    /\ UNCHANGED <<hFound, keyVars, snapVars, priceVars, auraVars, parseVars, queryVars, raceVars, persistVars, trackVars>>

AppendNext == DoAppendOnce

SpecAppend == AppendInit /\ [][AppendNext]_vars

-----------------------------------------------------------------------------
(* Claims about the pool key                                               *)

\* The part of the key after the chain and the underscore.
KeySlug == SubSeq(kKey, Len(kChain) + 2, Len(kKey))

\* A well-formed slug: only [a-z0-9_], no underscore at either end, no two
\* underscores in a row.
IsSlug(s) ==
    /\ \A i \in 1..Len(s) : IsSlugChar(s[i]) \/ s[i] = "_"
    /\ s # <<>> => (s[1] # "_" /\ s[Len(s)] # "_")
    /\ \A i \in 1..(Len(s) - 1) : ~(s[i] = "_" /\ s[i + 1] = "_")

\* C4 (as claimed): the key is the lowercased chain, an underscore and the
\* slug of the name; the slug is well formed and slugifying it again
\* returns it unchanged.
C4_KeyLowercaseChain ==
    kDone =>
        /\ kKey = LowerStr(kChain) \o <<"_">> \o Slugify(kName)
        /\ IsSlug(KeySlug)
        /\ Slugify(KeySlug) = KeySlug

-----------------------------------------------------------------------------
(* Claims about the snapshot store                                         *)

\* C5 (as claimed): load() after save(records) returns as many records, in
\* the same order, each with the saved record's numeric fields rounded (2
\* decimals for money, 4 for percentages), the aura fields included.
C5_RoundTrip ==
    (snapOp = "load" /\ lastSaved # <<>>) =>
        /\ snapRet.status = "ok"
        /\ Len(snapRet.pools) = Len(lastSaved)
        /\ \A i \in 1..Len(lastSaved) :
              LET got == snapRet.pools[i]
                  put == lastSaved[i]
              IN  /\ got.tvl = Round2(put.tvl)
                  /\ got.base_apy = Round4(put.base_apy)
                  /\ got.bal_rewards_apy =
                        <<Round4(put.bal_rewards_apy[1]), Round4(put.bal_rewards_apy[2])>>
                  /\ got.total_apy = Round4(put.total_apy)
                  /\ got.aura_apy = RoundOpt4(put.aura_apy)
                  /\ got.aura_tvl = RoundOpt2(put.aura_tvl)
                  /\ got.aura_boost = RoundOpt2(put.aura_boost)

\* The records of the snapshot file, when it is a snapshot envelope.
FilePools == latestFile.doc.pools.items

\* C6: after any sequence of saves the snapshot file holds exactly the
\* records of the last non-empty save, in that call's order, whatever the
\* file held before (an earlier save's records, or a file found on disk).
C6_SaveReplaces ==
    lastSaved # <<>> =>
        /\ latestFile.kind = "json"
        /\ latestFile.doc.type = "object"
        /\ latestFile.doc.pools.type = "array"
        /\ Len(FilePools) = Len(lastSaved)
        /\ \A i \in 1..Len(lastSaved) :
              /\ FilePools[i].name = lastSaved[i].name
              /\ FilePools[i].chain = lastSaved[i].chain
              /\ FilePools[i].address = lastSaved[i].address
              /\ FilePools[i].pool_id = lastSaved[i].pool_id
              /\ FilePools[i].data.tvl = Round2(lastSaved[i].tvl)
              /\ IsNone(FilePools[i].aura) = IsNone(lastSaved[i].aura_apy)

\* C6 witness: a non-empty save has replaced the records of an earlier,
\* different save, and an empty save since then has left them in place.
C6_Witness ==
    /\ overwrote
    /\ snapOp = "save"
    /\ snapRet.path = ""
    /\ Len(FilePools) = Len(lastSaved)

\* A snapshot envelope load can read: an object whose "pools", when present,
\* is an array.
WellFormedSnapshot(file) ==
    /\ file.kind = "json"
    /\ file.doc.type = "object"
    /\ Get(file.doc, "pools", JsonArray(<<>>)).type = "array"

\* C7 (as claimed): load never raises; on a missing file and on a file that
\* is no well-formed snapshot envelope it returns the empty list.
C7_LoadNeverRaises ==
    snapOp = "load" =>
        /\ snapRet.status = "ok"
        /\ ~WellFormedSnapshot(latestFile) => snapRet.pools = <<>>

\* The code point of a character of a chain name.
CodePoint(c) ==
    CASE c = "E" -> 69 [] c = "a" -> 97 [] c = "b" -> 98 [] c = "e" -> 101
      [] c = "h" -> 104 [] c = "r" -> 114 [] c = "t" -> 116 [] OTHER -> 0

RECURSIVE StrLess(_, _)
\* a < b as Python compares strings.
StrLess(a, b) ==
    IF b = <<>> THEN FALSE
    ELSE IF a = <<>> THEN TRUE
    ELSE IF Head(a) # Head(b) THEN CodePoint(Head(a)) < CodePoint(Head(b))
    ELSE StrLess(Tail(a), Tail(b))

\* The metadata block of the snapshot file.
Metadata == latestFile.doc.metadata

\* C20: the metadata save writes. total_pools is the number of records
\* saved, chains holds each chain of those records once, in ascending
\* order, and has_aura is true exactly when a saved record has aura_apy.
C20_Metadata ==
    lastSaved # <<>> =>
        /\ Metadata.total_pools = Len(lastSaved)
        /\ {Metadata.chains[i] : i \in 1..Len(Metadata.chains)} =
               {lastSaved[i].chain : i \in 1..Len(lastSaved)}
        /\ \A i \in 1..Len(Metadata.chains) - 1 :
               StrLess(Metadata.chains[i], Metadata.chains[i + 1])
        /\ Metadata.has_aura =
               (\E i \in 1..Len(lastSaved) : ~IsNone(lastSaved[i].aura_apy))

\* A save of two records, the first on the chain that sorts last and
\* without aura_apy, the second with it.
C20_Witness ==
    /\ Len(lastSaved) = 2
    /\ StrLess(lastSaved[2].chain, lastSaved[1].chain)
    /\ IsNone(lastSaved[1].aura_apy)
    /\ ~IsNone(lastSaved[2].aura_apy)
    /\ Metadata.chains = <<lastSaved[2].chain, lastSaved[1].chain>>
    /\ Metadata.has_aura
    /\ Metadata.total_pools = 2


-----------------------------------------------------------------------------
(* Claims about the history store                                          *)

\* The series of key k in the history file.
Series(k) == historyFile.doc.pools.slots[k].snapshots

\* The keys of the records of the last append_history.
TouchedKeys == {GeneratePoolKey(histArg[i]) : i \in 1..Len(histArg)}

\* The last append_history wrote the file, and no call before it passed
\* max_snapshots: every earlier call appended without a limit.
AppendedAfterUnlimited ==
    /\ histOp = "append"
    /\ histArg # <<>>
    /\ histRet.status = "ok"
    /\ ~hEarlierLimit

\* The most recent n entries of a series.
MostRecent(entries, n) == SubSeq(entries, Len(entries) - n + 1, Len(entries))

\* The entries key k held before the last call: N of the claim.
HeldBefore(k) == Len(hLog[k]) - CountKey(histArg, k)

\* C1 (as claimed): after N appends without max_snapshots the series of the
\* key holds the N entries in call order, and a following append with
\* max_snapshots = K, for every K < N + 1, leaves exactly the most recent K.
C1_TrimEveryLimit ==
    AppendedAfterUnlimited =>
        \A k \in TouchedKeys :
            IF IsNone(histMax) THEN Series(k) = hLog[k]
            ELSE histMax[1] < HeldBefore(k) + 1 =>
                    Series(k) = MostRecent(hLog[k], histMax[1])

\* C1 (amended): the same for every K with 1 <= K < N + 1; max_snapshots = 0
\* is read as no limit.
C1_TrimPositiveLimit ==
    AppendedAfterUnlimited =>
        \A k \in TouchedKeys :
            IF IsNone(histMax) THEN Series(k) = hLog[k]
            ELSE (1 <= histMax[1] /\ histMax[1] < HeldBefore(k) + 1) =>
                    Series(k) = MostRecent(hLog[k], histMax[1])

\* C1 witness: two appends without a limit, then one with max_snapshots = 2
\* that dropped the oldest entry of the key.
C1_Witness ==
    /\ AppendedAfterUnlimited
    /\ histMax = Some(2)
    /\ \E k \in TouchedKeys :
          /\ HeldBefore(k) = 2
          /\ Len(Series(k)) = 2
          /\ Series(k)[2] = hLog[k][3]


\* The slots of the history file.
Slots == historyFile.doc.pools.slots

\* C17: after append_history has written the file, every record of the call
\* is in the series named by its chain and its slugified name alone, so that
\* records differing in address or pool_id only share a series; there is one
\* series per key ever appended; and, as long as no call has passed a limit,
\* each series holds one entry per record appended under its key, in call
\* order.
C17_OneSeriesPerKey ==
    (histOp = "append" /\ histArg # <<>> /\ histRet.status = "ok") =>
        /\ \A i \in 1..Len(histArg) :
               (histArg[i].chain \o <<"_">> \o Slugify(histArg[i].name)) \in DOMAIN Slots
        /\ DOMAIN Slots = DOMAIN hLog
        /\ (~hEarlierLimit /\ ~Truthy(histMax)) =>
               \A k \in DOMAIN hLog : Slots[k].snapshots = hLog[k]

\* C17 witness: a pool was appended, then the same pool under another
\* address and another spelling of its name: one series with both entries,
\* under the metadata of the first.
C17_Witness ==
    /\ histOp = "append" /\ histRet.status = "ok"
    /\ Len(histArg) = 1
    /\ histArg[1].address = IdA2[3]
    /\ Cardinality(DOMAIN Slots) = 1
    /\ \E k \in DOMAIN Slots :
           /\ Slots[k].metadata.address = IdA[3]
           /\ Len(Slots[k].snapshots) = 2
           /\ Slots[k].snapshots = hLog[k]

-----------------------------------------------------------------------------
(* Claims about the price cache                                            *)

\* The last retry loop ended without prices.
FetchFailed == fetchRuns >= 1 /\ (fetchLog = <<>> \/ fetchLog[Len(fetchLog)] # "ok")

\* C8: on one AuraFinanceAPI, whatever calls of get_token_price and
\* fetch_all_prices are made, the retry loop against the oracle is started at
\* most once, and every request ever sent to the oracle was sent by that one
\* loop: the calls after it send none.
C8_FetchAtMostOnce ==
    /\ fetchRuns <= 1
    /\ httpCalls = Len(fetchLog)
    /\ (priceCalls >= 1 => fetchRuns = 1)

\* C8 witness: the one retry loop failed, and a later call was answered with
\* no second loop and no further request.
C8_Witness ==
    /\ priceCalls >= 2
    /\ FetchFailed
    /\ fetchLog # <<>>
    /\ fetchRuns = 1
    /\ httpCalls = Len(fetchLog)

\* C9: in one retry loop every attempt but the last got a 429, at most
\* max_retries attempts are made, a loop that ends on a 429 has used all of
\* them, there is one sleep before each retry and each sleep is twice the one
\* before; the loop leaves the cache marked as attempted, and empty when it
\* ended without prices.
C9_RetryOnlyOnRateLimit ==
    fetchRuns >= 1 =>
        /\ Len(fetchLog) <= fetchMax
        /\ \A i \in 1..(Len(fetchLog) - 1) : fetchLog[i] = "429"
        /\ (fetchLog # <<>> /\ fetchLog[Len(fetchLog)] = "429" => Len(fetchLog) = fetchMax)
        /\ (fetchMax >= 1 => fetchLog # <<>>)
        /\ Len(fetchWaits) = (IF fetchLog = <<>> THEN 0 ELSE Len(fetchLog) - 1)
        /\ \A i \in 2..Len(fetchWaits) : fetchWaits[i] = 2 * fetchWaits[i - 1]
        /\ pricesFetched
        /\ (FetchFailed => DOMAIN priceCache = {})


-----------------------------------------------------------------------------
(* Claims about calculate_aura_apr                                         *)

\* The rewards of the last calculate_aura_apr.
CallRewards == IF aArg.aura_pool = None THEN <<>> ELSE aArg.aura_pool[1].rewardData

\* Reward i has a positive rate and no price after the call.
Unpriced(i) ==
    /\ i \in 1..Len(CallRewards)
    /\ CallRewards[i].rewardRate.digits > 0
    /\ LookupPrice(priceCache, CallRewards[i].token.symbol) = None

\* The pool of the last call without reward i.
WithoutReward(i) ==
    Some([aArg.aura_pool[1] EXCEPT !.rewardData =
              SubSeq(CallRewards, 1, i - 1) \o SubSeq(CallRewards, i + 1, Len(CallRewards))])

\* C10: when calculate_aura_apr returns APRs, a positive-rate BAL reward
\* without a price makes bal_apr the caller's bal_max_apr; a positive-rate
\* reward of any other symbol without a price, AURA included, leaves bal,
\* aura, extra and total what they are without that reward, and they are all
\* zero when no reward has a price and none is BAL.
C10_UnpricedRewards ==
    aRet.type = "apr" =>
        /\ (\E i \in 1..Len(CallRewards) : Unpriced(i) /\ CallRewards[i].token.symbol = "BAL")
               => aRet.bal_apr = aArg.bal_max_apr
        /\ \A i \in 1..Len(CallRewards) :
               Unpriced(i) /\ CallRewards[i].token.symbol # "BAL"
                   => aRet = AuraAprData(WithoutReward(i), aArg.tvl, aArg.bal_max_apr, priceCache)
        /\ (\A i \in 1..Len(CallRewards) :
               CallRewards[i].rewardRate.digits > 0
                   => Unpriced(i) /\ CallRewards[i].token.symbol # "BAL")
               => /\ aRet.bal_apr = 0 /\ aRet.aura_apr = 0
                  /\ aRet.extra_apr = 0 /\ aRet.total_apr = 0

\* C10 witness: a BAL and an AURA reward, both with a positive rate and no
\* price: bal_apr is the caller's 5.00 percent and aura_apr is zero.
C10_Witness ==
    /\ aRet.type = "apr"
    /\ aArg.bal_max_apr = 500
    /\ \E i, j \in 1..Len(CallRewards) :
           /\ Unpriced(i) /\ CallRewards[i].token.symbol = "BAL"
           /\ Unpriced(j) /\ CallRewards[j].token.symbol = "AURA"
    /\ aRet.bal_apr = 500
    /\ aRet.aura_apr = 0
    /\ aRet.total_apr = 500

\* C12: a reward whose rate is zero or negative contributes nothing: the
\* result is the result of the pool without that reward, whatever its symbol
\* and whether or not its symbol has a price; when no reward has a positive
\* rate, bal, aura, extra and total are all zero, so that a BAL reward of
\* non-positive rate never brings bal_max_apr in.
C12_NonPositiveRate ==
    aRet.type = "apr" =>
        /\ \A i \in 1..Len(CallRewards) :
               CallRewards[i].rewardRate.digits <= 0
                   => aRet = AuraAprData(WithoutReward(i), aArg.tvl, aArg.bal_max_apr, priceCache)
        /\ (\A i \in 1..Len(CallRewards) : CallRewards[i].rewardRate.digits <= 0)
               => /\ aRet.bal_apr = 0 /\ aRet.aura_apr = 0
                  /\ aRet.extra_apr = 0 /\ aRet.total_apr = 0

\* C12 witness: a BAL reward of negative rate next to a priced GHO reward
\* of positive rate, with BAL priced and bal_max_apr 5.00: bal_apr is zero
\* and the total is the GHO APR alone.
C12_Witness ==
    /\ aRet.type = "apr"
    /\ aArg.bal_max_apr = 500
    /\ Len(CallRewards) = 2
    /\ CallRewards[1].token.symbol = "BAL"
    /\ CallRewards[1].rewardRate.digits < 0
    /\ CallRewards[2].token.symbol = "GHO"
    /\ LookupPrice(priceCache, "BAL") # None
    /\ aRet.bal_apr = 0
    /\ aRet.extra_apr > 0
    /\ aRet.total_apr = aRet.extra_apr

\* Reward i has a positive rate and a price after the call.
Priced(i) ==
    /\ CallRewards[i].rewardRate.digits > 0
    /\ LookupPrice(priceCache, CallRewards[i].token.symbol) # None
    /\ LookupPrice(priceCache, CallRewards[i].token.symbol)[1] # 0

\* The role of a reward: its symbol for the two currencies, "extra" otherwise.
Role(i) ==
    IF CallRewards[i].token.symbol \in {"BAL", "AURA"} THEN CallRewards[i].token.symbol
    ELSE "extra"

\* The APR of reward i alone.
AprOf(i) ==
    RewardApr(TokensPerYear(CallRewards[i].rewardRate, Decimals(CallRewards[i].token)),
              LookupPrice(priceCache, CallRewards[i].token.symbol)[1], aArg.tvl)

RECURSIVE RoleSum(_, _)
\* The sum of the APRs of the priced rewards of a role among the first n.
RoleSum(role, n) ==
    IF n = 0 THEN 0
    ELSE RoleSum(role, n - 1) + (IF Priced(n) /\ Role(n) = role THEN AprOf(n) ELSE 0)

\* C23: contributions are summed by role. When every reward of positive
\* rate has a price, bal is the sum of the APRs of the BAL rewards, aura the
\* sum of those of the AURA rewards and extra the sum of all the others.
C23_SummedByRole ==
    (aRet.type = "apr" /\ \A i \in 1..Len(CallRewards) :
                              CallRewards[i].rewardRate.digits > 0 => Priced(i)) =>
        /\ aRet.bal_apr = RoleSum("BAL", Len(CallRewards))
        /\ aRet.aura_apr = RoleSum("AURA", Len(CallRewards))
        /\ aRet.extra_apr = RoleSum("extra", Len(CallRewards))

-----------------------------------------------------------------------------
(* Claims about _parse_pool                                                *)

\* _parse_pool returned a record.
Parsed == pRet.status = "returned" /\ pRet.value # None

\* C2: whatever aprItems _parse_pool is given, the record has
\* bal_rewards_apy[0] <= bal_rewards_apy[1].
C2_BalMinAtMostMax ==
    Parsed => pRet.value[1].bal_rewards_apy[1] <= pRet.value[1].bal_rewards_apy[2]

\* C3: in every record of _parse_pool, aura_apy is absent exactly when
\* aura_tvl, aura_boost and aura_staking_contract are all absent.
C3_AuraAllOrNone ==
    Parsed =>
        (pRet.value[1].aura_apy = None
            <=> /\ pRet.value[1].aura_tvl = None
                /\ pRet.value[1].aura_boost = None
                /\ pRet.value[1].aura_staking_contract = None)


\* The tvl of the pool given to the last _parse_pool.
ParsedTvl == pArg.pool_data[1].dynamicData.totalLiquidity

\* C11: when _parse_pool hands calculate_aura_apr a tvl that is zero or
\* negative, calculate_aura_apr returns the empty dict, whatever the overlay
\* pool and its rewards, and the record has aura_apy absent.
C11_EmptyOverlayWithoutTvl ==
    (Parsed /\ pOverlay.type # "not_called" /\ ParsedTvl <= 0) =>
        /\ pOverlay = EmptyDict
        /\ pRet.value[1].aura_apy = None

\* C11 witness: an overlay pool with rewards was found for a pool whose tvl
\* is negative; the overlay is empty and aura_apy is absent.
C11_Witness ==
    /\ Parsed
    /\ ParsedTvl < 0
    /\ auraSubgraph # None
    /\ auraSubgraph[1].rewardData # <<>>
    /\ pOverlay = EmptyDict
    /\ pRet.value[1].aura_apy = None


\* The record of the last _parse_pool.
Record == pRet.value[1]

\* C13: in every record of _parse_pool, total_apy is base_apy plus the
\* unboosted bal_rewards_apy[0] plus the APYs of other_rewards; for a swap
\* fee of 0.05, base emissions of 0.02 and a boost of 0.03, base_apy is
\* 5.00, bal_rewards_apy is [2.00, 5.00] and total_apy is 7.00.
C13_TotalApy ==
    Parsed =>
        /\ Record.total_apy
              = Record.base_apy + Record.bal_rewards_apy[1] + SumApy(Record.other_rewards)
        /\ pArg.pool_data[1].dynamicData.aprItems = ExampleItems
              => /\ Record.base_apy = 500
                 /\ Record.bal_rewards_apy = <<200, 500>>
                 /\ Record.total_apy = 700

\* C13 witness: the pool of the example was parsed and its total is 7.00.
C13_Witness ==
    /\ Parsed
    /\ pArg.pool_data[1].dynamicData.aprItems = ExampleItems
    /\ Record.total_apy = 700
    /\ Record.bal_rewards_apy[2] = 500


\* C14: when calculate_aura_apr returned APRs to _parse_pool, the total of
\* the overlay is its bal, aura and extra APRs together, and the record's
\* aura_apy is base_apy plus that total plus the APYs of other_rewards, the
\* base_apy and other_rewards being those of the record, as in total_apy.
C14_AuraApy ==
    (Parsed /\ pOverlay.type = "apr") =>
        /\ pOverlay.total_apr = pOverlay.bal_apr + pOverlay.aura_apr + pOverlay.extra_apr
        /\ Record.aura_apy
              = Some(Record.base_apy + pOverlay.total_apr + SumApy(Record.other_rewards))
        /\ Record.total_apy - Record.bal_rewards_apy[1]
              = Record.aura_apy[1] - pOverlay.total_apr

\* C14 witness: a pool with a swap fee and another reward, and an overlay
\* with a priced BAL and a priced AURA reward.
C14_Witness ==
    /\ Parsed
    /\ pOverlay.type = "apr"
    /\ pOverlay.bal_apr > 0
    /\ pOverlay.aura_apr > 0
    /\ Record.base_apy > 0
    /\ Record.other_rewards # <<>>
    /\ Record.aura_apy = Some(Record.base_apy + pOverlay.bal_apr + pOverlay.aura_apr
                                + Record.other_rewards[1].apy)


\* The aprItems of the last _parse_pool.
CallItems == IF pArg.pool_data = None THEN <<>> ELSE pArg.pool_data[1].dynamicData.aprItems

\* The reward decomposition of a record.
Decomposition(record) ==
    <<record.base_apy, record.bal_rewards_apy, record.other_rewards, record.total_apy>>

\* The record of the pool of the last call without its aprItem i.
WithoutItem(i) ==
    ParsedPool([pArg.pool_data[1] EXCEPT !.dynamicData.aprItems =
                    SubSeq(CallItems, 1, i - 1) \o SubSeq(CallItems, i + 1, Len(CallItems))],
               pRet.value[1].chain, FALSE, None, NoPrices)

\* C24: an aprItem whose value is zero or negative is dropped whatever its
\* type: base_apy, bal_rewards_apy, other_rewards and total_apy are what
\* they are without that item.
C24_NonPositiveItemDropped ==
    Parsed =>
        \A i \in 1..Len(CallItems) :
            CallItems[i].apr <= 0 =>
                Decomposition(pRet.value[1]) = Decomposition(WithoutItem(i))

-----------------------------------------------------------------------------
(* Claims about get_history                                                *)

\* The slot of the key of the last get_history in the file it read, when
\* the file is a history with that slot and the slot has a series.
HasSeries ==
    /\ qFile.kind = "json"
    /\ qFile.doc.type = "object"
    /\ "pools" \in DOMAIN qFile.doc
    /\ qFile.doc.pools.type = "object"
    /\ qArg.pool_key[1] \in DOMAIN qFile.doc.pools.slots
    /\ "snapshots" \in DOMAIN qFile.doc.pools.slots[qArg.pool_key[1]]

QueriedSlot == qFile.doc.pools.slots[qArg.pool_key[1]]

\* The entry has a timestamp that parses and is not older than the last N
\* days.
WithinDays(snapshot, days) ==
    /\ "timestamp" \in DOMAIN snapshot
    /\ snapshot.timestamp.type = "string"
    /\ snapshot.timestamp.time # None
    /\ snapshot.timestamp.time[1] >= now - days * 24

\* The series of the queried slot restricted to the last N days.
Restricted(days) ==
    LET Keep(snapshot) == WithinDays(snapshot, days)
    IN  SelectSeq(QueriedSlot.snapshots, Keep)

\* C15: get_history(key, days=N) does not raise and leaves the history file
\* as it found it; for a pool with a series it returns the pool's slot with
\* the series restricted, in order, to the entries whose timestamp parses
\* and is not older than now minus N days.
C15_HistoryByDays ==
    (qRet.status # "none" /\ qArg.pool_key # None /\ qArg.days # None) =>
        /\ qRet.status = "ok"
        /\ historyFile = qFile
        /\ HasSeries =>
              qRet.value = [QueriedSlot EXCEPT !.snapshots = Restricted(qArg.days[1])]


-----------------------------------------------------------------------------
(* Claims about two runs in append_history                                 *)

RECURSIVE SumLengths(_, _)
\* The entries of the slots of the keys.
SumLengths(slots, keys) ==
    IF keys = {} THEN 0
    ELSE LET k == CHOOSE key \in keys : TRUE
         IN  Len(slots[k].snapshots) + SumLengths(slots, keys \ {k})

\* The entries of all the series of a history file.
TotalEntries(file) ==
    IF file.kind # "json" THEN 0
    ELSE SumLengths(file.doc.pools.slots, DOMAIN file.doc.pools.slots)

\* C16: with no lock around the read and the rewrite, the last write wins:
\* once a run has dumped and no run holds the file open, the file is the
\* history that run loaded plus its own entries, whatever the other run
\* wrote in between (or text that is not JSON when both had it open at
\* once).  Entries of the other run are lost in the state C16_LostUpdate.
C16_LastWriteWins ==
    (lastWriter # 0 /\ \A r \in Runs : rPc[r] # "opened") =>
        \/ historyFile =
              JsonFile([rLocal[lastWriter] EXCEPT
                  !.last_updated = now,
                  !.pools = JsonDict(AppendAll(rLocal[lastWriter].pools.slots,
                                               rList[lastWriter], now, None))])
        \/ raceOverlap /\ historyFile = MalformedFile

\* C16 witness: both runs have returned, the file is a history, and it
\* holds fewer entries than it held before plus those the two runs
\* appended: the entries of one run are gone.
C16_LostUpdate ==
    /\ \A r \in Runs : rPc[r] = "done"
    /\ historyFile.kind = "json"
    /\ TotalEntries(historyFile)
          < TotalEntries(raceStart) + Len(rList[1]) + Len(rList[2])

-----------------------------------------------------------------------------
(* Claims about fetch_and_save                                             *)

\* A store call of the last run that reached its write, and whose write
\* did not complete. append_history does not reach it when the history
\* file it loaded is not the expected object.
FailedWrite(call) ==
    /\ call.outcome # "written"
    /\ call.op = "append_history" =>
           HistoryFault(LoadHistory(fArg.history_before, now)) = ""

\* C18: a failed write is not swallowed. A save or an append_history whose
\* write fails raises OSError to its caller and returns no path; a
\* fetch_and_save whose snapshot write fails raises too, having called save
\* alone, with the history file as it was before the run.
C18_WriteFailureReported ==
    fRet.status # "none" =>
        /\ \A i \in 1..Len(fTrace) :
               FailedWrite(fTrace[i]) =>
                   fTrace[i].ret = [status |-> "raised", exc |-> "OSError"]
        /\ \A i \in 1..Len(fTrace) :
               fTrace[i].ret.status = "ok" =>
                   /\ fTrace[i].outcome = "written"
                   /\ fTrace[i].ret.path # ""
        /\ (fArg.results # <<>> /\ fArg.disk.latest # "written") =>
               /\ fRet = [status |-> "raised", exc |-> "OSError"]
               /\ Len(fTrace) = 1
               /\ fTrace[1].op = "save"
               /\ historyFile = fArg.history_before
        /\ (fArg.results # <<>> /\ fArg.disk.latest = "written") =>
               /\ Len(fTrace) = 2
               /\ fTrace[2].op = "append_history"
               /\ FailedWrite(fTrace[2]) => fRet = [status |-> "raised", exc |-> "OSError"]

\* A run whose snapshot write failed part of the way, after a run that
\* wrote both files: the run raised, the snapshot is lost and the history
\* file still holds what the earlier run appended.
C18_Witness ==
    /\ fRuns = 2
    /\ fArg.results # <<>>
    /\ fArg.disk.latest = "dump_fails"
    /\ fRet = [status |-> "raised", exc |-> "OSError"]
    /\ fArg.latest_before.kind = "json"
    /\ latestFile = MalformedFile
    /\ historyFile.kind = "json"
    /\ historyFile = fArg.history_before
    /\ Len(fTrace) = 1

\* The last entry of the series of the key of a record.
LastEntry(pool) ==
    LET snapshots == Slots[GeneratePoolKey(pool)].snapshots
    IN  snapshots[Len(snapshots)]

\* C26: fetch_and_save keeps the two stores in step. A run with an empty
\* result list writes neither file; a run with records calls save first and
\* append_history second; and once the latest run with records has had both
\* its writes completed, the snapshot file holds the records of that run
\* and the series of the key of each of them ends with an entry that run
\* appended.
C26_StoresInStep ==
    /\ (fRet.status # "none" /\ fArg.results = <<>>) =>
           /\ fTrace = <<>>
           /\ latestFile = fArg.latest_before
           /\ historyFile = fArg.history_before
    /\ fTrace # <<>> =>
           /\ fTrace[1].op = "save"
           /\ Len(fTrace) = 2 => fTrace[2].op = "append_history"
    /\ (fLatest.results # <<>> /\ fLatest.written) =>
           /\ latestFile = JsonFile(SnapshotEnvelope(fLatest.results, fLatest.time))
           /\ historyFile.kind = "json"
           /\ HistoryFault(historyFile.doc) = ""
           /\ \A i \in 1..Len(fLatest.results) :
                  /\ GeneratePoolKey(fLatest.results[i]) \in DOMAIN Slots
                  /\ LastEntry(fLatest.results[i]).timestamp = fLatest.time
                  /\ \E j \in 1..Len(fLatest.results) :
                         /\ GeneratePoolKey(fLatest.results[j]) =
                                GeneratePoolKey(fLatest.results[i])
                         /\ LastEntry(fLatest.results[i]) =
                                Snapshot(fLatest.results[j], fLatest.time)

-----------------------------------------------------------------------------
(* Claims about track_pools                                                *)

\* The answer to the request track_pools makes for an entry of pools_config.
AnswerFor(cfg) ==
    IF IsFullId(cfg.pool) THEN tNet.by_id[cfg.pool] ELSE tNet.batch[GqlChain(cfg.chain)]

\* The request for the entry succeeded: it was answered with the pools.
Succeeded(cfg) ==
    AnswerFor(cfg) = (IF IsFullId(cfg.pool) THEN IdAnswer ELSE BatchAnswer(GqlChain(cfg.chain)))

\* The record is the one of the entry's pool.
RecordOf(record, cfg) ==
    /\ record.chain = cfg.chain
    /\ IF IsFullId(cfg.pool) THEN record.pool_id = cfg.pool
       ELSE record.address = LowerId(cfg.pool)

\* C19: track_pools never aborts because one source failed. It returns;
\* what it returns has a record for every entry of pools_config whose
\* request succeeded, and no record from a request that failed or returned
\* nothing.
C19_TrackPoolsSurvives ==
    tRet.status # "none" =>
        /\ tRet.status = "returned"
        /\ \A i \in 1..Len(tConfig) :
               Succeeded(tConfig[i]) =>
                   \E j \in 1..Len(tRet.value) : RecordOf(tRet.value[j], tConfig[i])
        /\ \A j \in 1..Len(tRet.value) :
               \E i \in 1..Len(tConfig) :
                   Succeeded(tConfig[i]) /\ RecordOf(tRet.value[j], tConfig[i])

-----------------------------------------------------------------------------
(* Claims about one append_history on a history written earlier            *)

\* The slots of the history the call started from: those of the file it
\* found, none when there was no file or no JSON in it.
FoundSlots ==
    IF hFound.kind = "json" /\ HistoryFault(hFound.doc) = ""
    THEN hFound.doc.pools.slots ELSE NoSlots

\* The call appended the records of a non-empty list and wrote the file.
Appended == histOp = "append" /\ histArg # <<>> /\ histRet.status = "ok"

\* s is a prefix of t.
IsPrefix(s, t) == Len(s) <= Len(t) /\ SubSeq(t, 1, Len(s)) = s

\* C21: append_history without max_snapshots is append-only. For every key
\* of the history it started from, the series before the call is a prefix
\* of the series after it; a slot whose key is not among the records is as
\* it was; and a call with an empty list leaves the file alone.
C21_AppendOnly ==
    /\ (Appended /\ IsNone(histMax)) =>
           \A k \in DOMAIN FoundSlots :
               /\ k \in DOMAIN Slots
               /\ IsPrefix(FoundSlots[k].snapshots, Slots[k].snapshots)
               /\ k \notin TouchedKeys => Slots[k] = FoundSlots[k]
    /\ (histOp = "append" /\ histArg = <<>>) => historyFile = hFound

\* C21 witness: the history held two entries of one key and one of another;
\* a record of the first key was appended without a limit.
C21_Witness ==
    /\ Appended /\ IsNone(histMax)
    /\ \E k \in TouchedKeys, u \in DOMAIN FoundSlots \ TouchedKeys :
           /\ k \in DOMAIN FoundSlots
           /\ Len(FoundSlots[k].snapshots) = 2
           /\ FoundSlots[k].snapshots[1] # FoundSlots[k].snapshots[2]
           /\ Len(Slots[k].snapshots) = 3
           /\ Slots[k].snapshots[3].timestamp = now
           /\ Slots[u] = FoundSlots[u]

\* C22: append_history with max_snapshots trims only the series it appends
\* to. A slot whose key is not among the records is as the call found it,
\* however many entries it holds.
C22_TrimTouchedOnly ==
    (Appended /\ ~IsNone(histMax)) =>
        \A k \in DOMAIN FoundSlots \ TouchedKeys :
            k \in DOMAIN Slots /\ Slots[k] = FoundSlots[k]

\* C22 witness: a call with max_snapshots = 1 cut the series it appended to
\* down to the new entry, and the series of another key still holds two.
C22_Witness ==
    /\ Appended /\ histMax = Some(1)
    /\ \E k \in TouchedKeys, u \in DOMAIN FoundSlots \ TouchedKeys :
           /\ k \in DOMAIN FoundSlots
           /\ Len(Slots[k].snapshots) = 1
           /\ Slots[k].snapshots[1].timestamp = now
           /\ Len(Slots[u].snapshots) = 2
           /\ Slots[u] = FoundSlots[u]

\* The file the call found is missing, or its content is not a history
\* envelope: no JSON, or JSON that is not an object with an object "pools".
Unusable == hFound.kind # "json" \/ HistoryFault(hFound.doc) # ""

\* C25: append_history tolerates an unusable history file. With a non-empty
\* list the call does not raise; it starts from an empty envelope with the
\* version tag, and the file it writes holds one entry per record.
C25_ToleratesUnusableFile ==
    (histOp = "append" /\ histArg # <<>> /\ Unusable) =>
        /\ histRet = [status |-> "ok", path |-> HistoryPath]
        /\ historyFile.kind = "json"
        /\ historyFile.doc.version = EmptyHistory(now).version
        /\ DOMAIN Slots = TouchedKeys
        /\ TotalEntries(historyFile) = Len(histArg)

\* The entries the series of key k held when the call found the file.
FoundSeries(k) == IF k \in DOMAIN FoundSlots THEN FoundSlots[k].snapshots ELSE <<>>

\* C27: append_history with max_snapshots = 0 behaves like a call without a
\* limit. No entry is removed from any series, and the series of each key
\* among the records grows by one entry per record of that key.
C27_ZeroIsNoLimit ==
    (Appended /\ histMax = Some(0)) =>
        /\ \A k \in DOMAIN FoundSlots :
               k \in DOMAIN Slots /\ IsPrefix(FoundSlots[k].snapshots, Slots[k].snapshots)
        /\ \A k \in TouchedKeys :
               Len(Slots[k].snapshots) = Len(FoundSeries(k)) + CountKey(histArg, k)
        /\ historyFile = JsonFile(WrittenDocument(LoadHistory(hFound, now), histArg, now))

\* C27 witness: a call with max_snapshots = 0 on a series of two entries
\* left three.
C27_Witness ==
    /\ Appended /\ histMax = Some(0)
    /\ \E k \in TouchedKeys :
           /\ Len(FoundSeries(k)) = 2
           /\ Len(Slots[k].snapshots) = 3
           /\ Slots[k].snapshots[3].timestamp = now

\* The metadata of a record as append_history writes it.
MetadataOf(pool) ==
    [name |-> pool.name, chain |-> pool.chain, address |-> pool.address,
     pool_id |-> pool.pool_id]

\* The first record of the call whose key is k.
FirstOfKey(k) ==
    histArg[CHOOSE i \in 1..Len(histArg) :
                /\ GeneratePoolKey(histArg[i]) = k
                /\ \A j \in 1..(i - 1) : GeneratePoolKey(histArg[j]) # k]

\* C28: the metadata of a series is written once. A slot the call found
\* keeps its metadata whatever the records of its key carry; a slot the call
\* created has the metadata of the first record of its key.
C28_MetadataWrittenOnce ==
    Appended =>
        /\ \A k \in DOMAIN FoundSlots :
               k \in DOMAIN Slots /\ Slots[k].metadata = FoundSlots[k].metadata
        /\ \A k \in TouchedKeys \ DOMAIN FoundSlots :
               Slots[k].metadata = MetadataOf(FirstOfKey(k))

\* C28 witness: a record was appended to a series whose metadata has
\* another address, another pool_id and another spelling of the name.
C28_Witness ==
    /\ Appended
    /\ \E k \in TouchedKeys \cap DOMAIN FoundSlots :
           /\ Slots[k].metadata = FoundSlots[k].metadata
           /\ Slots[k].metadata.address # histArg[1].address
           /\ Slots[k].metadata.pool_id # histArg[1].pool_id
           /\ Slots[k].metadata.name # histArg[1].name
           /\ Len(Slots[k].snapshots) = Len(FoundSlots[k].snapshots) + 1

====
